---- MODULE Spec2Model ----
(***************************************************************************)
(* A model of aztier-deployer: the ARM batch client                        *)
(* (send_batch_request_to_arm, identical in azTierWatcher.py and           *)
(* azTierSyncer.py), the asset differ, and the Watcher and Syncer runs     *)
(* over the tiered / untiered files.                                       *)
(***************************************************************************)
EXTENDS Integers, Sequences, FiniteSets, TLC

(***************************************************************************)
(* Bounds of the model                                                     *)
(***************************************************************************)
\* longest POST body whose items get independent outcomes from the API; the
\* items of a longer body share one outcome
MaxVaried == 2
\* retryable outcomes (429, 500, 503) the API hands out during one call
MaxRetryable == 2
\* 202 answers the API gives to the polls of one Location URL
MaxPolls == 2
\* pages of one asynchronous result
MaxPages == 2
\* turns of the sleep loop of a continuation page that is not ready
MaxNaps == 1
\* role ids of a category, and the longest tiered or upstream list
MaxIds == 2
\* runs of a script in a row
MaxRuns == 1
\* the longest list a function called on its own is given
MaxListed == 2

(***************************************************************************)
(* Program constants                                                       *)
(***************************************************************************)
batch_request_size_limit == 500
server_error_wait_time == 60
throttle_default_wait_time == 20

\* a request dictionary without a 'name' key; a response without the header
NoName == 0
NoHeader == -1
\* no response item seen yet for a request
NoAnswer == -2

\* Python's None where the code can produce it in a list of requests
None == [name |-> NoName, url |-> 0]

VARIABLES
    batch_requests,          \* the argument of send_batch_request_to_arm
    pc,                      \* position in send_batch_request_to_arm
    exc,                     \* the exception that ended the call, or "none"
    chunk_index,             \* index of the current chunk (1-based)
    chunked_batch_request,   \* the current chunk
    remaining_requests,      \* requests of the chunk still to (re)submit
    complete_response,       \* accumulated status-200 items
    tokens_acquired,         \* calls of get_arm_access_token
    body,                    \* 'requests' of the last POST
    round,                   \* POSTs sent for the current chunk
    http_response,           \* top-level answer to the last POST
    retry_after_x_seconds,   \* poll interval read from the 202 answer
    all_responses,           \* items collected by handle_asynchronous_http_responses
    next_page,               \* TRUE while a nextLink remains to be followed
    api_items,               \* API side: the response items of the current round
    api_rest,                \* API side: items not yet served on a page
    pages_served,            \* API side: the pages served, in order
    answered_200,            \* urls whose latest response item had status 200
    answered_dropped,        \* urls whose latest item had 404 or an unhandled status
    answered_retry,          \* urls whose latest item had status 429, 500 or 503
    slept,                   \* sleeps of the latest analysis, in order
    retryable_left,          \* retryable outcomes the API may still hand out
    polls_left,              \* 202 poll answers the API may still give
    naps                     \* turns of the not-ready-page loop taken

batchVars == <<batch_requests, pc, exc, chunk_index, chunked_batch_request,
               remaining_requests, complete_response, tokens_acquired, body, round,
               http_response, retry_after_x_seconds, all_responses, next_page,
               api_items, api_rest, pages_served, answered_200, answered_dropped,
               answered_retry, slept,
               retryable_left, polls_left, naps>>

\* a run of the Watcher (azTierWatcher.py) or of the Syncer (azTierSyncer.py)
VARIABLES
    program,                 \* "watcher" or "syncer"
    run_pc,                  \* position in the script's __main__
    category,                \* the asset category __main__ is working on
    project_config,          \* content of config.json (values lower-cased)
    tenant,                  \* the roles and assignments of the tenant
    aat,                     \* the upstream (AAT) tiered lists, by category
    tiered_file,             \* the tiered JSON files, by category
    untiered_file,           \* the untiered JSON files, by category
    tiered_roles,            \* the tiered lists __main__ has read, by category
    roles_from_aat,          \* the upstream list fetched for the category
    collected_roles,         \* the roles collected from the tenant
    stdout,                  \* the lines printed, in order
    exit_status,             \* exit status of the process, -1 while it runs
    run_exc,                 \* the uncaught exception that ended the run
    files_at_start,          \* the tiered and untiered files when the run began
    written,                 \* the files the run has written
    today,                   \* datetime.now() as a day number
    runs_left,               \* runs still to start
    calls,                   \* the remote calls the run has issued, in order
    scopes,                  \* the scope ids the enumerator has collected
    arguments,               \* the function called on its own, with its arguments
    outcome,                 \* how that call ended, and the list it returned
    previous_run             \* how the run before this one ended, "none" for the first

runVars == <<program, run_pc, category, project_config, tenant, aat, tiered_file,
             untiered_file, tiered_roles, roles_from_aat, collected_roles, stdout,
             exit_status, run_exc, files_at_start, written, today, runs_left,
             calls, scopes, arguments, outcome, previous_run>>

vars == <<batchVars, runVars>>

(***************************************************************************)
(* Python list helpers                                                     *)
(***************************************************************************)
Min(a, b) == IF a < b THEN a ELSE b

\* s[i:j] for 0 <= i <= j
Slice(s, i, j) == SubSeq(s, i + 1, Min(j, Len(s)))

\* the values of range(0, n, step) as a sequence
RangeFrom0(n, step) == [k \in 1..((n + step - 1) \div step) |-> (k - 1) * step]

Reverse(s) == [k \in 1..Len(s) |-> s[Len(s) + 1 - k]]

\* sum(s[lo..hi]), halving the range
RECURSIVE SumRange(_, _, _)
SumRange(s, lo, hi) ==
    IF lo > hi THEN 0
    ELSE IF lo = hi THEN s[lo]
    ELSE LET mid == (lo + hi) \div 2
         IN  SumRange(s, lo, mid) + SumRange(s, mid + 1, hi)

SumSeq(s) == SumRange(s, 1, Len(s))

\* the concatenation of s[lo..hi], a sequence of sequences
RECURSIVE FlattenRange(_, _, _)
FlattenRange(ss, lo, hi) ==
    IF lo > hi THEN <<>>
    ELSE IF lo = hi THEN ss[lo]
    ELSE LET mid == (lo + hi) \div 2
         IN  FlattenRange(ss, lo, mid) \o FlattenRange(ss, mid + 1, hi)

Flatten(ss) == FlattenRange(ss, 1, Len(ss))

(***************************************************************************)
(* Requests and response items                                             *)
(***************************************************************************)
\* the request of position i of a list built with "name": str(uuid.uuid4())
NamedRequest(i) == [name |-> i, url |-> i]
\* the request of position i of the management-group / subscription list
NamelessRequest(i) == [name |-> NoName, url |-> i]

RetryAfterValues == {0, 10}

\* what the API can answer to one request of a batch
Outcomes ==
    {[code |-> c, ra |-> NoHeader] : c \in {200, 404, 400, 500, 503}}
    \cup {[code |-> 429, ra |-> h] : h \in RetryAfterValues \cup {NoHeader}}

Retryable(code) == code \in {429, 500, 503}

\* the response item the API returns for request r with outcome o
Item(r, o) == [name |-> r.name, httpStatusCode |-> o.code, retryAfter |-> o.ra,
               content |-> r.url]

(***************************************************************************)
(* send_batch_request_to_arm: chunking                                     *)
(***************************************************************************)
\* slices one request too long
chunked_batch_requests_long_slices(reqs) ==
    LET starts == RangeFrom0(Len(reqs), batch_request_size_limit)
    IN  [k \in 1..Len(starts) |->
            Slice(reqs, starts[k], starts[k] + batch_request_size_limit + 1)]

chunked_batch_requests(reqs) ==
    LET starts == RangeFrom0(Len(reqs), batch_request_size_limit)
    IN  [k \in 1..Len(starts) |-> Slice(reqs, starts[k], starts[k] + batch_request_size_limit)]

(***************************************************************************)
(* send_batch_request_to_arm: analysis of one round                        *)
(***************************************************************************)
WithStatus(responses, code) ==
    SelectSeq(responses, LAMBDA r : r.httpStatusCode = code)

\* next((r for r in chunk if r['name'] == name), None) raises KeyError when the
\* response has no name or a request without name is compared before a match
LookupRaises(chunk, name) ==
    \/ name = NoName
    \/ \E j \in 1..Len(chunk) :
          /\ chunk[j].name = NoName
          /\ \A k \in 1..(j - 1) : chunk[k].name # name

\* takes the last request of the chunk whatever the name
FindRequest_last(chunk, name) ==
    IF chunk # <<>> THEN chunk[Len(chunk)] ELSE None

\* the first request of the chunk with that name, or None
FindRequest(chunk, name) ==
    LET matches == {j \in 1..Len(chunk) : chunk[j].name = name}
    IN  IF matches # {}
        THEN chunk[CHOOSE j \in matches : \A k \in matches : j <= k]
        ELSE None

\* the requests collected for a list of response items, in order
CollectRequests(chunk, responses) ==
    [k \in 1..Len(responses) |-> FindRequest(chunk, responses[k].name)]

\* counts the 404 items among the failed ones
failed_responses_with_404(responses) ==
    WithStatus(responses, 500) \o WithStatus(responses, 503) \o WithStatus(responses, 404)

failed_responses(responses) == WithStatus(responses, 500) \o WithStatus(responses, 503)

\* forgets the throttled items
throttled_responses_none(responses) == <<>>

throttled_responses(responses) == WithStatus(responses, 429)

\* gives up after the second round of a chunk
RetryRequests_ceiling(chunk, responses) ==
    IF round >= 2
    THEN <<>>
    ELSE CollectRequests(chunk, failed_responses(responses))
         \o CollectRequests(chunk, throttled_responses(responses))

\* remaining_requests after the analysis of a round
RetryRequests(chunk, responses) ==
    CollectRequests(chunk, failed_responses(responses))
    \o CollectRequests(chunk, throttled_responses(responses))

CollectRaises(chunk, responses) ==
    \E k \in 1..Len(responses) :
        /\ Retryable(responses[k].httpStatusCode)
        /\ LookupRaises(chunk, responses[k].name)

\* the throttling wait as the fraction num/den
avg_retry_after(throttled) ==
    LET retry_after_headers ==
            SelectSeq([k \in 1..Len(throttled) |-> throttled[k].retryAfter],
                      LAMBDA h : h # NoHeader)
        total_retry_after ==
            IF retry_after_headers # <<>> THEN SumSeq(retry_after_headers) ELSE 0
    IN  IF total_retry_after # 0
        THEN [num |-> total_retry_after, den |-> Len(retry_after_headers)]
        ELSE [num |-> throttle_default_wait_time, den |-> 1]

\* the sleeps of one analysis, in the order the code takes them
SleepsOf(responses) ==
    (IF WithStatus(responses, 500) # <<>>
     THEN <<[why |-> "server error", num |-> server_error_wait_time, den |-> 1]>>
     ELSE <<>>)
    \o (IF WithStatus(responses, 503) # <<>>
        THEN <<[why |-> "service unavailable", num |-> server_error_wait_time, den |-> 1]>>
        ELSE <<>>)
    \o (IF throttled_responses(responses) # <<>>
        THEN LET w == avg_retry_after(throttled_responses(responses))
             IN  <<[why |-> "throttled", num |-> w.num, den |-> w.den]>>
        ELSE <<>>)

(***************************************************************************)
(* The remote batch endpoint                                               *)
(***************************************************************************)
\* the lists a caller passes: short lists of uuid-named requests, or the two
\* nameless management-group / subscription requests
InputLists ==
    {[i \in 1..n |-> NamedRequest(i)] : n \in 0..MaxVaried}
    \cup {[i \in 1..2 |-> NamelessRequest(i)]}

\* lists around the size limit: a full chunk, a full chunk and one request more
LongInputLists ==
    {[i \in 1..n |-> NamedRequest(i)] :
        n \in batch_request_size_limit..(batch_request_size_limit + 1)}

\* the outcomes the API gives to a body of n requests: chosen one by one
\* (free) for a body of at most MaxVaried requests, one shared outcome for
\* every request of a longer body
OutcomeVector(n, free, shared) ==
    [k \in 1..n |-> IF n <= MaxVaried THEN free[k] ELSE shared]

RetryableChoices(n, free, shared) ==
    IF n <= MaxVaried
    THEN Cardinality({k \in 1..n : Retryable(free[k].code)})
    ELSE IF Retryable(shared.code) THEN 1 ELSE 0

\* the response items for a body, in request order or in reverse order
ApiAnswer(requests, outcomes, reversed) ==
    LET items == [k \in 1..Len(requests) |-> Item(requests[k], outcomes[k])]
    IN  IF reversed THEN Reverse(items) ELSE items

(***************************************************************************)
(* Initial state of a call of send_batch_request_to_arm                    *)
(***************************************************************************)
InitCall(lists) ==
    /\ batch_requests \in lists
    /\ pc = "chunk"
    /\ exc = "none"
    /\ chunk_index = 0
    /\ chunked_batch_request = <<>>
    /\ remaining_requests = <<>>
    /\ complete_response = <<>>
    /\ tokens_acquired = 0
    /\ body = <<>>
    /\ round = 0
    /\ http_response = [status_code |-> NoAnswer, retryAfter |-> NoHeader]
    /\ retry_after_x_seconds = NoHeader
    /\ all_responses = <<>>
    /\ next_page = FALSE
    /\ api_items = <<>>
    /\ api_rest = <<>>
    /\ pages_served = <<>>
    /\ answered_200 = {}
    /\ answered_dropped = {}
    /\ answered_retry = {}
    /\ slept = <<>>
    /\ retryable_left = MaxRetryable
    /\ polls_left = MaxPolls
    /\ naps = 0

\* no call of send_batch_request_to_arm takes place
NoCall ==
    /\ batch_requests = <<>>
    /\ pc = "idle"
    /\ exc = "none"
    /\ chunk_index = 0
    /\ chunked_batch_request = <<>>
    /\ remaining_requests = <<>>
    /\ complete_response = <<>>
    /\ tokens_acquired = 0
    /\ body = <<>>
    /\ round = 0
    /\ http_response = [status_code |-> NoAnswer, retryAfter |-> NoHeader]
    /\ retry_after_x_seconds = NoHeader
    /\ all_responses = <<>>
    /\ next_page = FALSE
    /\ api_items = <<>>
    /\ api_rest = <<>>
    /\ pages_served = <<>>
    /\ answered_200 = {}
    /\ answered_dropped = {}
    /\ answered_retry = {}
    /\ slept = <<>>
    /\ retryable_left = 0
    /\ polls_left = 0
    /\ naps = 0

(***************************************************************************)
(* send_batch_request_to_arm, step by step                                 *)
(***************************************************************************)
\* a loop that acquires its token before the first chunk only
StartChunk_one_token ==
    /\ pc = "chunk"
    /\ chunk_index < Len(chunked_batch_requests(batch_requests))
    /\ chunk_index' = chunk_index + 1
    /\ chunked_batch_request' = chunked_batch_requests(batch_requests)[chunk_index + 1]
    /\ remaining_requests' = chunked_batch_requests(batch_requests)[chunk_index + 1]
    /\ tokens_acquired' = IF chunk_index = 0 THEN 1 ELSE tokens_acquired
    /\ round' = 0
    /\ answered_retry' = {}
    /\ pc' = IF remaining_requests' # <<>> THEN "post" ELSE "chunk"
    /\ UNCHANGED <<runVars, batch_requests, exc, complete_response, body, http_response,
                   retry_after_x_seconds, all_responses, next_page, api_items,
                   api_rest, pages_served, answered_200, answered_dropped, slept,
                   retryable_left, polls_left, naps>>

\* for chunked_batch_request in chunked_batch_requests: token, remaining_requests
StartChunk ==
    /\ pc = "chunk"
    /\ chunk_index < Len(chunked_batch_requests(batch_requests))
    /\ chunk_index' = chunk_index + 1
    /\ chunked_batch_request' = chunked_batch_requests(batch_requests)[chunk_index + 1]
    /\ remaining_requests' = chunked_batch_requests(batch_requests)[chunk_index + 1]
    /\ tokens_acquired' = tokens_acquired + 1
    /\ round' = 0
    /\ answered_retry' = {}
    /\ pc' = IF remaining_requests' # <<>> THEN "post" ELSE "chunk"
    /\ UNCHANGED <<runVars, batch_requests, exc, complete_response, body, http_response,
                   retry_after_x_seconds, all_responses, next_page, api_items,
                   api_rest, pages_served, answered_200, answered_dropped, slept,
                   retryable_left, polls_left, naps>>

\* the for loop is exhausted: return complete_response
Return ==
    /\ pc = "chunk"
    /\ chunk_index = Len(chunked_batch_requests(batch_requests))
    /\ pc' = "returned"
    /\ UNCHANGED <<runVars, batch_requests, exc, chunk_index, chunked_batch_request,
                   remaining_requests, complete_response, tokens_acquired, body, round,
                   http_response, retry_after_x_seconds, all_responses, next_page,
                   api_items, api_rest, pages_served, answered_200, answered_dropped,
                   answered_retry, slept, retryable_left, polls_left, naps>>

\* requests.post(endpoint, headers, json = {'requests': remaining_requests})
SendPost ==
    /\ pc = "post"
    /\ body' = remaining_requests
    /\ round' = round + 1
    /\ pages_served' = <<>>
    /\ next_page' = FALSE
    /\ polls_left' = MaxPolls
    /\ UNCHANGED <<runVars, batch_requests, chunk_index, chunked_batch_request,
                   remaining_requests, complete_response, tokens_acquired,
                   answered_200, answered_dropped, answered_retry, slept, naps>>

\* the API decides the outcome of every request of a body
ApiDecides(requests) ==
    \E free \in [1..(IF Len(requests) <= MaxVaried THEN Len(requests) ELSE 0)
                   -> Outcomes],
       shared \in Outcomes, reversed \in BOOLEAN :
        LET n == Len(requests)
            used == RetryableChoices(n, free, shared)
        IN  /\ used <= retryable_left
            /\ n <= MaxVaried => shared.code = 200 /\ shared.ra = NoHeader
            /\ n <= 1 => ~reversed
            /\ retryable_left' = retryable_left - used
            /\ api_items' = ApiAnswer(requests, OutcomeVector(n, free, shared), reversed)

\* the POST is answered 200 with a 'responses' array (lines 162-166)
PostAnswered200 ==
    /\ SendPost
    /\ ApiDecides(remaining_requests)
    /\ http_response' = [status_code |-> 200, retryAfter |-> NoHeader]
    /\ all_responses' = api_items'
    /\ api_rest' = <<>>
    /\ pc' = "analyze"
    /\ UNCHANGED <<exc, retry_after_x_seconds>>

\* the POST is answered 202 with a Location and a Retry-After header
\* (lines 129-132); the API works on the batch
PostAnswered202 ==
    /\ SendPost
    /\ \E h \in {20} :
        /\ http_response' = [status_code |-> 202, retryAfter |-> h]
        /\ retry_after_x_seconds' = h
    /\ all_responses' = <<>>
    /\ pc' = "poll"
    /\ UNCHANGED <<exc, api_items, api_rest, retryable_left>>

\* the POST is answered 202 without a Retry-After header: headers.get returns
\* None and int(None) raises TypeError (line 131)
PostAnswered202NoRetryAfter ==
    /\ SendPost
    /\ http_response' = [status_code |-> 202, retryAfter |-> NoHeader]
    /\ all_responses' = <<>>
    /\ pc' = "raised"
    /\ exc' = "TypeError: int(None)"
    /\ UNCHANGED <<retry_after_x_seconds, api_items, api_rest, retryable_left>>

\* the POST is answered with another status: the handler returns None (175-178)
PostRejected ==
    /\ SendPost
    /\ http_response' = [status_code |-> 500, retryAfter |-> NoHeader]
    /\ all_responses' = <<>>
    /\ pc' = "analyze_none"
    /\ UNCHANGED <<exc, retry_after_x_seconds, api_items, api_rest, retryable_left>>

\* what the API serves on one page of the asynchronous result: the next item
\* alone or all the remaining items (always those on page MaxPages); a
\* nextLink while items remain
PageSizes(rest, served) ==
    {k \in {1, Len(rest)} : k <= Len(rest) /\ Len(served) + 1 < MaxPages}
    \cup {Len(rest)}

\* keeps the last page only
TakePage_overwrite(rest, k) ==
    /\ all_responses' = SubSeq(rest, 1, k)
    /\ pages_served' = Append(pages_served, SubSeq(rest, 1, k))
    /\ api_rest' = SubSeq(rest, k + 1, Len(rest))
    /\ next_page' = (k < Len(rest))
    /\ pc' = IF k < Len(rest) THEN "page" ELSE "analyze"

\* page_response.json()['value'] is appended, json()['nextLink'] is followed
TakePage(rest, k) ==
    /\ all_responses' = all_responses \o SubSeq(rest, 1, k)
    /\ pages_served' = Append(pages_served, SubSeq(rest, 1, k))
    /\ api_rest' = SubSeq(rest, k + 1, Len(rest))
    /\ next_page' = (k < Len(rest))
    /\ pc' = IF k < Len(rest) THEN "page" ELSE "analyze"

\* while page_response.status_code == 202: sleep, GET Location (lines 134-138);
\* the poll is answered 202 again
PollAnswered202 ==
    /\ pc = "poll"
    /\ polls_left > 0
    /\ polls_left' = polls_left - 1
    /\ slept' = <<[why |-> "poll", num |-> retry_after_x_seconds, den |-> 1]>>
    /\ UNCHANGED <<runVars, batch_requests, pc, exc, chunk_index, chunked_batch_request,
                   remaining_requests, complete_response, tokens_acquired, body, round,
                   http_response, retry_after_x_seconds, all_responses, next_page,
                   api_items, api_rest, pages_served, answered_200, answered_dropped,
                   answered_retry, retryable_left, naps>>

\* the poll is answered 200 with the first page (lines 145-148)
PollAnswered200 ==
    /\ pc = "poll"
    /\ ApiDecides(body)
    /\ \E k \in PageSizes(api_items', pages_served) : TakePage(api_items', k)
    /\ slept' = <<[why |-> "poll", num |-> retry_after_x_seconds, den |-> 1]>>
    /\ UNCHANGED <<runVars, batch_requests, exc, chunk_index, chunked_batch_request,
                   remaining_requests, complete_response, tokens_acquired, body, round,
                   http_response, retry_after_x_seconds, answered_200,
                   answered_dropped, answered_retry, polls_left, naps>>

\* the poll ends on another status: the handler returns None (lines 140-143)
PollFailed ==
    /\ pc = "poll"
    /\ pc' = "analyze_none"
    /\ slept' = <<[why |-> "poll", num |-> retry_after_x_seconds, den |-> 1]>>
    /\ UNCHANGED <<runVars, batch_requests, exc, chunk_index, chunked_batch_request,
                   remaining_requests, complete_response, tokens_acquired, body, round,
                   http_response, retry_after_x_seconds, all_responses, next_page,
                   api_items, api_rest, pages_served, answered_200, answered_dropped,
                   answered_retry, retryable_left, polls_left, naps>>

\* while next_page: the GET of next_page is answered 200 (lines 150-160)
NextPageAnswered200 ==
    /\ pc = "page"
    /\ \E k \in PageSizes(api_rest, pages_served) : TakePage(api_rest, k)
    /\ UNCHANGED <<runVars, batch_requests, exc, chunk_index, chunked_batch_request,
                   remaining_requests, complete_response, tokens_acquired, body, round,
                   http_response, retry_after_x_seconds, api_items, answered_200,
                   answered_dropped, answered_retry, slept, retryable_left, polls_left,
                   naps>>

\* the GET of next_page is answered 202: the loop of lines 154-156 is entered
NextPageAnswered202 ==
    /\ pc = "page"
    /\ pc' = "page_wait"
    /\ UNCHANGED <<runVars, batch_requests, exc, chunk_index, chunked_batch_request,
                   remaining_requests, complete_response, tokens_acquired, body, round,
                   http_response, retry_after_x_seconds, all_responses, next_page,
                   api_items, api_rest, pages_served, answered_200, answered_dropped,
                   answered_retry, slept, retryable_left, polls_left, naps>>

\* while next_page_response.status_code == 202: time.sleep(...) sends nothing
\* and never reads a new response
SleepOnPage ==
    /\ pc = "page_wait"
    /\ naps < MaxNaps
    /\ naps' = naps + 1
    /\ slept' = <<[why |-> "page", num |-> retry_after_x_seconds, den |-> 1]>>
    /\ UNCHANGED <<runVars, batch_requests, pc, exc, chunk_index, chunked_batch_request,
                   remaining_requests, complete_response, tokens_acquired, body, round,
                   http_response, retry_after_x_seconds, all_responses, next_page,
                   api_items, api_rest, pages_served, answered_200, answered_dropped,
                   answered_retry, retryable_left, polls_left>>

\* the GET of next_page is answered with an error status: the body has no
\* 'value' and line 159 raises KeyError
NextPageFailed ==
    /\ pc = "page"
    /\ pc' = "raised"
    /\ exc' = "KeyError: 'value'"
    /\ UNCHANGED <<runVars, batch_requests, chunk_index, chunked_batch_request,
                   remaining_requests, complete_response, tokens_acquired, body, round,
                   http_response, retry_after_x_seconds, all_responses, next_page,
                   api_items, api_rest, pages_served, answered_200, answered_dropped,
                   answered_retry, slept, retryable_left, polls_left, naps>>

\* the urls answered by the items of a list
Urls(responses) == {responses[k].content : k \in 1..Len(responses)}

Dropped(responses) ==
    SelectSeq(responses, LAMBDA r : r.httpStatusCode # 200 /\ ~Retryable(r.httpStatusCode))

Retried(responses) == SelectSeq(responses, LAMBDA r : Retryable(r.httpStatusCode))

\* lines 206-277: classify the items, accumulate the successes, sleep, collect
\* the requests to resubmit; then the while test and the for loop
AnalyzeRound ==
    /\ pc = "analyze"
    /\ complete_response' = complete_response \o WithStatus(all_responses, 200)
    /\ answered_200' = (answered_200 \ Urls(api_items))
                       \cup Urls(WithStatus(api_items, 200))
    /\ answered_dropped' = (answered_dropped \ Urls(api_items))
                           \cup Urls(Dropped(api_items))
    /\ answered_retry' = Urls(Retried(api_items))
    /\ IF CollectRaises(chunked_batch_request, all_responses)
       THEN /\ pc' = "raised"
            /\ exc' = "KeyError: 'name'"
            /\ slept' = SelectSeq(SleepsOf(all_responses),
                                  LAMBDA z : z.why # "throttled")
            /\ UNCHANGED remaining_requests
       ELSE /\ remaining_requests' = RetryRequests(chunked_batch_request, all_responses)
            /\ slept' = SleepsOf(all_responses)
            /\ pc' = IF remaining_requests' # <<>> THEN "post" ELSE "chunk"
            /\ UNCHANGED exc
    /\ UNCHANGED <<runVars, batch_requests, chunk_index, chunked_batch_request,
                   tokens_acquired, body, round, http_response, retry_after_x_seconds,
                   all_responses, next_page, api_items, api_rest, pages_served,
                   retryable_left, polls_left, naps>>

\* line 209 iterates over None: TypeError
AnalyzeNone ==
    /\ pc = "analyze_none"
    /\ pc' = "raised"
    /\ exc' = "TypeError: 'NoneType' object is not iterable"
    /\ UNCHANGED <<runVars, batch_requests, chunk_index, chunked_batch_request,
                   remaining_requests, complete_response, tokens_acquired, body, round,
                   http_response, retry_after_x_seconds, all_responses, next_page,
                   api_items, api_rest, pages_served, answered_200, answered_dropped,
                   answered_retry, slept, retryable_left, polls_left, naps>>

NextBatch ==
    \/ StartChunk
    \/ Return
    \/ PostAnswered200
    \/ PostAnswered202
    \/ PostAnswered202NoRetryAfter
    \/ PostRejected
    \/ PollAnswered202
    \/ PollAnswered200
    \/ PollFailed
    \/ NextPageAnswered200
    \/ NextPageAnswered202
    \/ NextPageFailed
    \/ SleepOnPage
    \/ AnalyzeRound
    \/ AnalyzeNone

(***************************************************************************)
(* Files, configuration, tenant and upstream project                       *)
(***************************************************************************)
Categories == {"azure", "entra", "graph"}

\* a JSON file on disk that holds an array
JsonFile(list) == [kind |-> "json", content |-> list]

\* a file that holds no array: kind is "empty", "absent" or "malformed"
NoJsonFile(kind) == [kind |-> kind, content |-> <<>>]

\* config.json with its three settings, lower-cased as __main__ reads them
Config(keep, only, individual) ==
    [keepLocalChanges |-> keep, includeOnlyRolesInUse |-> only,
     includeIndividualResourceScope |-> individual]

\* a role of the tenant: its definition type and how it is assigned
RoleState(type, use) == [type |-> type, use |-> use]

\* an Entra role of the tenant: a custom definition or not, and how it is
\* assigned
EntraState(custom, use) == [custom |-> custom, use |-> use]

\* the lists of the scope enumerator before its first stage
NoScopes == [mg |-> <<>>, subscription |-> <<>>, rg |-> <<>>, resource |-> <<>>]

\* no function is called on its own
NoArguments ==
    [function |-> "none", extended_assets |-> <<>>, base_assets |-> <<>>,
     role_definition_ids |-> <<>>]

\* the call has not ended
NotCalled == [outcome |-> "none", assets |-> <<>>, exc |-> "none"]

\* no run of a script takes place
NoRun ==
    /\ program = "none"
    /\ run_pc = "idle"
    /\ category = "azure"
    /\ project_config = Config("false", "false", "false")
    /\ tenant = [pim_arm |-> FALSE, pim_graph |-> FALSE, azure |-> <<>>,
                 entra |-> <<>>, graph |-> {}]
    /\ aat = [c \in Categories |-> <<>>]
    /\ tiered_file = [c \in Categories |-> JsonFile(<<>>)]
    /\ untiered_file = [c \in Categories |-> JsonFile(<<>>)]
    /\ tiered_roles = [c \in Categories |-> <<>>]
    /\ roles_from_aat = <<>>
    /\ collected_roles = <<>>
    /\ stdout = <<>>
    /\ exit_status = -1
    /\ run_exc = "none"
    /\ files_at_start = [tiered |-> tiered_file, untiered |-> untiered_file]
    /\ written = {}
    /\ today = 0
    /\ runs_left = 0
    /\ calls = <<>>
    /\ scopes = NoScopes
    /\ arguments = NoArguments
    /\ outcome = NotCalled
    /\ previous_run = "none"

InitBatch == InitCall(InputLists) /\ NoRun

InitChunks == InitCall(LongInputLists) /\ NoRun

\* calls with short request lists, every item answered independently
SpecBatch == InitBatch /\ [][NextBatch]_vars

\* calls with request lists around the size limit of one batch
SpecChunks == InitChunks /\ [][NextBatch]_vars

(***************************************************************************)
(* Properties of the batch client                                          *)
(***************************************************************************)
\* the items of the result that answer url u
ItemsFor(u) == {k \in 1..Len(complete_response) : complete_response[k].content = u}

\* the headers present among the throttled items of the latest round
PresentRetryAfter ==
    SelectSeq([k \in 1..Len(throttled_responses(api_items)) |->
                  throttled_responses(api_items)[k].retryAfter],
              LAMBDA h : h # NoHeader)

\* C1: every POST to the batch endpoint, first submission or retry round,
\* carries at most 500 requests, whatever the length of the input list
C1_ChunkCeiling ==
    /\ Len(body) <= 500
    /\ pc = "post" => Len(remaining_requests) <= 500

\* a retry round of a full chunk of a list longer than one chunk
C1_Witness ==
    /\ Len(batch_requests) > 500
    /\ Len(body) = 500
    /\ round >= 2
    /\ pc = "analyze"

\* C2: after a POST answered with a status other than 200 and 202 the call
\* hands None to its caller: it does not end in an exception and returns no
\* accumulated response
C2_FailureSignal ==
    (http_response.status_code \notin {200, 202, NoAnswer})
        => pc \in {"analyze_none", "returned_none"}

\* C3: at a normal return every input request has exactly one final outcome:
\* status 200 and one item in the result, or a non-retryable status and no
\* item; the result holds nothing else
C3_OneOutcomePerRequest ==
    pc = "returned" =>
        /\ answered_200 \cup answered_dropped = 1..Len(batch_requests)
        /\ answered_200 \cap answered_dropped = {}
        /\ answered_retry = {}
        /\ \A u \in answered_200 : Cardinality(ItemsFor(u)) = 1
        /\ \A u \in answered_dropped : ItemsFor(u) = {}
        /\ \A k \in 1..Len(complete_response) :
              /\ complete_response[k].httpStatusCode = 200
              /\ complete_response[k].content \in answered_200

\* a return after a retry round, with a success and a dropped request
C3_Witness ==
    /\ pc = "returned"
    /\ round >= 2
    /\ answered_200 # {}
    /\ answered_dropped # {}

\* C4: the wait slept for a round with throttled items is the mean of the
\* Retry-After values present among them (also when they are all 0), and the
\* default of 20 seconds only when none is present
C4_ThrottleWaitIsMean ==
    (pc = "post" /\ round >= 1) =>
        \A k \in 1..Len(slept) :
            slept[k].why = "throttled" =>
                IF PresentRetryAfter = <<>>
                THEN slept[k].num = 20 * slept[k].den
                ELSE slept[k].num * Len(PresentRetryAfter)
                        = SumSeq(PresentRetryAfter) * slept[k].den

\* C5: the body of every retry POST holds exactly the requests of the chunk
\* whose latest response item had status 429, 500 or 503: each element is a
\* request of the chunk, none is a null placeholder, none is sent twice and no
\* request answered otherwise is resubmitted
C5_RetryBody ==
    (pc = "post" /\ round >= 1) =>
        /\ \A k \in 1..Len(remaining_requests) :
              /\ remaining_requests[k] # None
              /\ \E j \in 1..Len(chunked_batch_request) :
                    chunked_batch_request[j] = remaining_requests[k]
              /\ remaining_requests[k].url \in answered_retry
        /\ \A u \in answered_retry :
              Cardinality({k \in 1..Len(remaining_requests) :
                              remaining_requests[k].url = u}) = 1

\* a retry of the second request alone, out of a chunk of two
C5_Witness ==
    /\ pc = "post"
    /\ round >= 1
    /\ Len(chunked_batch_request) = 2
    /\ Len(remaining_requests) = 1
    /\ remaining_requests[1].url = 2

\* C6: an item with status 404 or a status outside {200, 429, 500, 503} is
\* never added to the result, its request is never resubmitted, and a round
\* without retryable items always leads on to the next chunk or the return
C6_DroppedItems ==
    /\ [](\A k \in 1..Len(complete_response) :
              complete_response[k].httpStatusCode = 200)
    /\ [](pc = "post" =>
              \A k \in 1..Len(remaining_requests) :
                  remaining_requests[k].url \notin answered_dropped)
    /\ [][(pc = "analyze" /\ Retried(all_responses) = <<>>)
              => (pc' = "chunk" /\ remaining_requests' = <<>> /\ exc' = "none")]_vars

\* a return after a round that held a 404 or unhandled item next to a success
C6_Witness ==
    /\ pc = "returned"
    /\ round = 1
    /\ answered_dropped # {}
    /\ answered_200 # {}
    /\ Len(complete_response) = 1

\* C7: the retry loop of a chunk is left, for the next chunk or the return,
\* only when the latest round held no item with status 429, 500 or 503
C7_NoAbandonedRequest ==
    pc \in {"chunk", "returned"} => answered_retry = {}

\* a return from a list of two chunks after every retryable outcome was used
C7_Witness ==
    /\ pc = "returned"
    /\ chunk_index = 2
    /\ retryable_left = 0
    /\ round >= 2

\* C8: on the 202 path the handler returns the concatenation, in page order,
\* of the value arrays of all the pages served, and the items are analysed
\* only once a page without nextLink was read
C8_PagesConcatenated ==
    (pc = "analyze" /\ http_response.status_code = 202) =>
        /\ all_responses = Flatten(pages_served)
        /\ all_responses = api_items
        /\ ~next_page
        /\ api_rest = <<>>

\* two pages read after a poll that was first answered 202
C8_Witness ==
    /\ pc = "analyze"
    /\ http_response.status_code = 202
    /\ Len(pages_served) = 2
    /\ pages_served[2] # <<>>
    /\ polls_left < MaxPolls

\* C9: a 202 answer without Retry-After does not make the call fail: the
\* Location URL is polled on a fixed fallback interval
C9_FallbackInterval ==
    (http_response.status_code = 202 /\ http_response.retryAfter = NoHeader)
        => (pc # "raised" /\ retry_after_x_seconds # NoHeader)

(***************************************************************************)
(* Asset records                                                           *)
(***************************************************************************)
\* an entry of a tiered file
TieredAsset(id, type, tier) ==
    [id |-> id, assetName |-> id, assetType |-> type, assignableScope |-> "/",
     tier |-> tier]

\* an entry of an upstream (AAT) list: no assetType, no assignableScope
AatAsset(id, tier) == [id |-> id, assetName |-> id, tier |-> tier]

\* [asset['id'] for asset in assets]
IdsOf(assets) == [k \in 1..Len(assets) |-> assets[k].id]

\* x in list
InList(x, list) == \E k \in 1..Len(list) : list[k] = x

\* [asset for asset in assets if asset['id'] == id][0]
FirstWithId(assets, id) ==
    assets[CHOOSE k \in 1..Len(assets) :
              /\ assets[k].id = id
              /\ \A j \in 1..(k - 1) : assets[j].id # id]

\* the elements of a finite set of numbers in ascending order
RECURSIVE Ascending(_)
Ascending(S) ==
    IF S = {} THEN <<>>
    ELSE LET m == CHOOSE x \in S : \A y \in S : x <= y
         IN  <<m>> \o Ascending(S \ {m})

\* sorted(list, key = ...): stable; keys[k] is the key tuple of list[k], and
\* key tuples compare as Python compares tuples
StableSort(list, keys) ==
    LET LexLess(a, b) ==
            \E i \in 1..Len(a) : a[i] < b[i] /\ \A j \in 1..(i - 1) : a[j] = b[j]
        Rank(k) == 1 + Cardinality({j \in 1..Len(list) :
                        \/ LexLess(keys[j], keys[k])
                        \/ keys[j] = keys[k] /\ j < k})
    IN  [r \in 1..Len(list) |-> list[CHOOSE k \in 1..Len(list) : Rank(k) = r]]

(***************************************************************************)
(* The Syncer's asset differ                                               *)
(***************************************************************************)
\* a differ result: the list returned, or the process exit or the exception
Returned(assets) == [outcome |-> "ok", assets |-> assets, exc |-> "none"]

\* print('FATAL ERROR ...'); exit()
Exited == [outcome |-> "exit", assets |-> <<>>, exc |-> "none"]

\* an exception leaves the function
Raised(e) == [outcome |-> "raised", assets |-> <<>>, exc |-> e]

\* a differ that reports every extended asset as added
Syncer_find_added_assets_all(extended_assets, base_assets) ==
    Returned(extended_assets)

Syncer_find_added_assets(extended_assets, base_assets) ==
    IF Len(extended_assets) < Len(base_assets) THEN Exited
    ELSE LET added_asset_ids ==
                 SelectSeq(IdsOf(extended_assets),
                           LAMBDA i : ~InList(i, IdsOf(base_assets)))
         IN  Returned([k \in 1..Len(added_asset_ids) |->
                          FirstWithId(extended_assets, added_asset_ids[k])])

Syncer_find_removed_assets(extended_assets, base_assets) ==
    IF Len(extended_assets) < Len(base_assets) THEN Exited
    ELSE LET removed_asset_ids ==
                 SelectSeq(IdsOf(base_assets),
                           LAMBDA i : ~InList(i, IdsOf(extended_assets)))
         IN  Returned([k \in 1..Len(removed_asset_ids) |->
                          FirstWithId(base_assets, removed_asset_ids[k])])

\* 'if extended_assets:' tests the list, not the asset found: a base asset
\* without a counterpart makes extended_asset.keys() raise on None; a base
\* asset is appended once for every shared field whose value differs
find_modified_assets(extended_assets, base_assets) ==
    IF Len(extended_assets) < Len(base_assets) THEN Exited
    ELSE IF \E k \in 1..Len(base_assets) :
                ~InList(base_assets[k].id, IdsOf(extended_assets))
    THEN Raised("AttributeError: 'NoneType' object has no attribute 'keys'")
    ELSE LET ModifiedProperties(base_asset, extended_asset) ==
                 {f \in (DOMAIN base_asset) \cap (DOMAIN extended_asset) :
                     base_asset[f] # extended_asset[f]}
             Appended(base_asset) ==
                 [n \in 1..Cardinality(ModifiedProperties(
                              base_asset, FirstWithId(extended_assets, base_asset.id)))
                     |-> base_asset]
         IN  Returned(Flatten([k \in 1..Len(base_assets) |-> Appended(base_assets[k])]))

(***************************************************************************)
(* The role collectors, as the tenant answers them                         *)
(***************************************************************************)
\* the id of an Azure role definition is a path that ends in the role id
AzureDefinitionId(id) == <<"roleDefinitions", id>>

\* the id of an Entra role definition is the role id
EntraDefinitionId(id) == <<id>>

\* role_definition_id.split("/")[-1]
LastSegment(role_definition_id) == role_definition_id[Len(role_definition_id)]

\* the role ids whose assignment state is one of uses, as a collector lists
\* them: each id once
\* a listing that ignores the assignment state
IdsUsed_any_use(roles, uses) == Ascending(1..Len(roles))

IdsUsed(roles, uses) == Ascending({i \in 1..Len(roles) : roles[i].use \in uses})

\* roleAssignmentScheduleInstances: the active assignments
get_role_definition_id_of_active_azure_roles(t) ==
    LET ids == IdsUsed(t.azure, {"active", "both"})
    IN  [k \in 1..Len(ids) |-> AzureDefinitionId(ids[k])]

\* roleEligibilityScheduleInstances: the eligible assignments
get_role_definition_id_of_eligible_azure_roles(t) ==
    LET ids == IdsUsed(t.azure, {"eligible", "both"})
    IN  [k \in 1..Len(ids) |-> AzureDefinitionId(ids[k])]

\* roleAssignments: the assignments of a tenant without PIM
get_role_definition_id_of_assigned_azure_roles(t) ==
    LET ids == IdsUsed(t.azure, {"active", "eligible", "both"})
    IN  [k \in 1..Len(ids) |-> AzureDefinitionId(ids[k])]

\* one definition per requested id, in request order
get_all_azure_role_definitions_from_arm(t, role_definition_ids) ==
    [k \in 1..Len(role_definition_ids) |->
        [roleDefinitionId |-> role_definition_ids[k],
         roleId |-> LastSegment(role_definition_ids[k]),
         roleName |-> LastSegment(role_definition_ids[k]),
         roleType |-> t.azure[LastSegment(role_definition_ids[k])].type]]

get_built_in_azure_role_definitions_from_arm(t, role_definition_ids) ==
    SelectSeq(get_all_azure_role_definitions_from_arm(t, role_definition_ids),
              LAMBDA definition : definition.roleType = "BuiltInRole")

\* the Syncer's all_azure_role_definition_ids_in_use
all_azure_role_definition_ids_in_use(t) ==
    IF t.pim_arm
    THEN get_role_definition_id_of_active_azure_roles(t)
         \o get_role_definition_id_of_eligible_azure_roles(t)
    ELSE get_role_definition_id_of_assigned_azure_roles(t)

get_role_definition_id_of_active_entra_roles_from_graph(t) ==
    LET ids == IdsUsed(t.entra, {"active", "both"})
    IN  [k \in 1..Len(ids) |-> EntraDefinitionId(ids[k])]

get_role_definition_id_of_eligible_entra_roles_from_graph(t) ==
    LET ids == IdsUsed(t.entra, {"eligible", "both"})
    IN  [k \in 1..Len(ids) |-> EntraDefinitionId(ids[k])]

\* the Syncer's all_entra_role_definition_ids_in_use
all_entra_role_definition_ids_in_use(t) ==
    IF t.pim_graph
    THEN get_role_definition_id_of_active_entra_roles_from_graph(t)
         \o get_role_definition_id_of_eligible_entra_roles_from_graph(t)
    ELSE get_role_definition_id_of_active_entra_roles_from_graph(t)

\* appRoleId of every app role assignment of the tenant
get_assigned_msgraph_app_permission_ids(t) == Ascending(t.graph)

\* all_azure_role_ids_in_use, all_entra_role_ids_in_use or
\* all_assigned_msgraph_app_permission_ids: the short ids in use
RoleIdsInUse(role_type, t) ==
    IF role_type = "azure"
    THEN LET ds == all_azure_role_definition_ids_in_use(t)
         IN  [k \in 1..Len(ds) |-> LastSegment(ds[k])]
    ELSE IF role_type = "entra"
    THEN LET ds == all_entra_role_definition_ids_in_use(t)
         IN  [k \in 1..Len(ds) |-> LastSegment(ds[k])]
    ELSE get_assigned_msgraph_app_permission_ids(t)

\* the test that keeps an added upstream role when only roles in use count;
\* for Entra the role id is compared with the whole definition id
AddedIsInUse(role_type, t, role) ==
    IF role_type = "azure"
    THEN LET ds == get_built_in_azure_role_definitions_from_arm(
                       t, all_azure_role_definition_ids_in_use(t))
         IN  \E k \in 1..Len(ds) : ds[k].roleId = role.id
    ELSE IF role_type = "entra"
    THEN LET ds == all_entra_role_definition_ids_in_use(t)
         IN  \E k \in 1..Len(ds) : ds[k] = <<role.id>>
    ELSE InList(role.id, get_assigned_msgraph_app_permission_ids(t))

(***************************************************************************)
(* run_sync_workflow                                                       *)
(***************************************************************************)
\* the asset with one more field, or with that field overwritten
enrich_asset_with_type(asset, asset_type) ==
    [f \in (DOMAIN asset) \cup {"assetType"} |->
        IF f = "assetType"
        THEN (IF asset_type = "builtin" THEN "Built-in" ELSE "Custom")
        ELSE asset[f]]

enrich_asset_with_scope(asset, asset_scope) ==
    [f \in (DOMAIN asset) \cup {"assignableScope"} |->
        IF f = "assignableScope" THEN asset_scope ELSE asset[f]]

\* an upstream role as it enters the local list
Enriched(role) ==
    enrich_asset_with_scope(enrich_asset_with_type(role, "builtin"), "/")

\* the filter without the exemption of Custom roles
StillInUse_any_type(role, role_ids_in_use) == InList(role.id, role_ids_in_use)

\* the test of the last filter: in use, or Custom
StillInUse(role, role_ids_in_use) ==
    InList(role.id, role_ids_in_use) \/ role.assetType = "Custom"

\* every modified role is overwritten, at the first index that holds its id,
\* by the enriched upstream role of that id
\* an overwrite with the base asset that find_modified_assets returned
ReplaceModified_with_base(roles, modified_roles, roles_from_upstream) ==
    [i \in 1..Len(roles) |->
        IF InList(roles[i].id, IdsOf(modified_roles))
        THEN FirstWithId(modified_roles, roles[i].id)
        ELSE roles[i]]

ReplaceModified(roles, modified_roles, roles_from_upstream) ==
    [i \in 1..Len(roles) |->
        IF /\ InList(roles[i].id, IdsOf(modified_roles))
           /\ InList(roles[i].id, IdsOf(roles_from_upstream))
           /\ \A j \in 1..(i - 1) : roles[j].id # roles[i].id
        THEN Enriched(FirstWithId(roles_from_upstream, roles[i].id))
        ELSE roles[i]]

\* remote is the fate of the calls that collect the roles in use: "ok" or
\* "failed"; they are made only when only_in_use (include_only_roles_in_use)
\* is set; keep_local is keep_local_changes
run_sync_workflow(keep_local, only_in_use, role_type, tiered_builtin_roles_from_aat, tiered_all_roles_from_local, t, remote) ==
    LET tiered_builtin_roles_from_local ==
            SelectSeq(tiered_all_roles_from_local,
                      LAMBDA role : role.assetType = "Built-in")
        added == Syncer_find_added_assets(tiered_builtin_roles_from_aat,
                                          tiered_builtin_roles_from_local)
        role_ids_in_use ==
            IF only_in_use THEN RoleIdsInUse(role_type, t) ELSE <<>>
        added_in_use ==
            IF only_in_use
            THEN SelectSeq(added.assets, LAMBDA role : AddedIsInUse(role_type, t, role))
            ELSE added.assets
        appended ==
            tiered_all_roles_from_local
            \o [k \in 1..Len(added_in_use) |-> Enriched(added_in_use[k])]
        modified == find_modified_assets(tiered_builtin_roles_from_aat,
                                         tiered_builtin_roles_from_local)
        replaced ==
            IF keep_local THEN appended
            ELSE ReplaceModified(appended, modified.assets,
                                 tiered_builtin_roles_from_aat)
        removed == Syncer_find_removed_assets(tiered_builtin_roles_from_aat,
                                              tiered_builtin_roles_from_local)
        removed_built_in ==
            SelectSeq(removed.assets, LAMBDA role : role.assetType = "Built-in")
        pruned ==
            SelectSeq(replaced, LAMBDA role : ~InList(role.id, IdsOf(removed_built_in)))
        filtered ==
            IF only_in_use
            THEN SelectSeq(pruned, LAMBDA role : StillInUse(role, role_ids_in_use))
            ELSE pruned
    IN  IF role_type \notin {"azure", "entra", "graph"} THEN Exited
        ELSE IF added.outcome = "exit" THEN Exited
        ELSE IF only_in_use /\ remote = "failed"
        THEN (IF role_type = "azure"
              THEN Raised("TypeError: 'NoneType' object is not iterable")
              ELSE Exited)
        ELSE IF ~keep_local /\ modified.outcome # "ok" THEN modified
        ELSE IF role_type = "entra" /\ removed_built_in # <<>>
        THEN Raised("UnboundLocalError: tiered_all_entra_roles_from_local")
        ELSE Returned(filtered)

(***************************************************************************)
(* The Watcher's collection and differ                                     *)
(***************************************************************************)
\* a role as the Watcher's __main__ records it
WatcherRole(id, type) == [id |-> id, scope |-> "/", type |-> type, name |-> id]

\* built_in_azure_roles_in_use: with PIM the built-in definitions of the
\* active and eligible ids, without PIM every definition of the assigned ids
built_in_azure_roles_in_use(t) ==
    LET definitions ==
            IF t.pim_arm
            THEN get_built_in_azure_role_definitions_from_arm(
                     t, get_role_definition_id_of_active_azure_roles(t)
                        \o get_role_definition_id_of_eligible_azure_roles(t))
            ELSE get_all_azure_role_definitions_from_arm(
                     t, get_role_definition_id_of_assigned_azure_roles(t))
    IN  [k \in 1..Len(definitions) |->
            WatcherRole(definitions[k].roleId,
                        IF definitions[k].roleType = "BuiltInRole"
                        THEN "Built-in" ELSE "Custom")]

\* roleDefinitions?$filter=type eq 'CustomRole'
custom_azure_roles(t) ==
    LET ids == Ascending({i \in 1..Len(t.azure) : t.azure[i].type = "CustomRole"})
    IN  [k \in 1..Len(ids) |-> WatcherRole(ids[k], "Custom")]

\* azure_roles = built_in_azure_roles_in_use + custom_azure_roles
azure_roles(t) == built_in_azure_roles_in_use(t) \o custom_azure_roles(t)

\* a run that asks for the permanent, the active and the eligible assignments
\* whatever the probe answered
watcher_azure_calls_every_collector(t) ==
    [k \in 1..7 |->
        [call |-> <<"is_pim_enabled_for_arm", "get_resource_id_of_scopes_from_arm",
                    "get_role_definition_id_of_assigned_azure_roles_within_scope_from_arm",
                    "get_role_definition_id_of_active_azure_roles_within_scope_from_arm",
                    "get_role_definition_id_of_eligible_azure_roles_within_scope_from_arm",
                    "get_all_azure_role_definitions_from_arm",
                    "get_custom_azure_role_definitions_from_arm">>[k],
         of |-> <<>>]]

\* the remote calls of the Azure part of the Watcher's __main__, in order
watcher_azure_calls(t) ==
    LET names ==
            <<"is_pim_enabled_for_arm", "get_resource_id_of_scopes_from_arm">>
            \o (IF t.pim_arm
                THEN <<"get_role_definition_id_of_active_azure_roles_within_scope_from_arm",
                       "get_role_definition_id_of_eligible_azure_roles_within_scope_from_arm",
                       "get_built_in_azure_role_definitions_from_arm">>
                ELSE <<"get_role_definition_id_of_assigned_azure_roles_within_scope_from_arm",
                       "get_all_azure_role_definitions_from_arm">>)
            \o <<"get_custom_azure_role_definitions_from_arm">>
    IN  [k \in 1..Len(names) |-> [call |-> names[k], of |-> <<>>]]

\* roleDefinitions?$filter=isBuiltIn eq false
custom_entra_roles(t) ==
    LET ids == Ascending({i \in 1..Len(t.entra) : t.entra[i].custom})
    IN  [k \in 1..Len(ids) |-> WatcherRole(ids[k], "Custom")]

\* the Watcher's differ has no precondition on the lengths; an added asset
\* becomes an untiered entry dated date
Watcher_find_added_assets(extended_assets, base_assets, date) ==
    LET added_asset_ids ==
            SelectSeq(IdsOf(extended_assets),
                      LAMBDA i : ~InList(i, IdsOf(base_assets)))
        Enrich(added_asset) ==
            [detectedOn |-> date, apiEvent |-> "added", id |-> added_asset.id,
             assetName |-> added_asset.name, assetType |-> added_asset.type,
             assignableScope |-> added_asset.scope]
    IN  [k \in 1..Len(added_asset_ids) |->
            Enrich(FirstWithId(extended_assets, added_asset_ids[k]))]

\* a differ that reports only the removed assets of type Custom
Watcher_find_removed_assets_custom_only(extended_assets, base_assets) ==
    SelectSeq(base_assets,
              LAMBDA asset : /\ ~InList(asset.id, IdsOf(extended_assets))
                             /\ asset.assetType = "Custom")

Watcher_find_removed_assets(extended_assets, base_assets) ==
    LET removed_asset_ids ==
            SelectSeq(IdsOf(base_assets),
                      LAMBDA i : ~InList(i, IdsOf(extended_assets)))
    IN  [k \in 1..Len(removed_asset_ids) |->
            FirstWithId(base_assets, removed_asset_ids[k])]

\* an update that appends every added asset, listed or not
update_untiered_assets_append_all(untiered_assets, added_assets) ==
    LET all == untiered_assets \o added_assets
    IN  [updated |-> Len(added_assets) > 0,
         assets |-> StableSort(all, [k \in 1..Len(all) |-> <<0 - all[k].detectedOn>>])]

\* an update that leaves the appended assets at the end of the array
update_untiered_assets_unsorted(untiered_assets, added_assets) ==
    LET assets_to_add ==
            SelectSeq(added_assets,
                      LAMBDA asset : ~InList(asset.id, IdsOf(untiered_assets)))
    IN  [updated |-> Len(assets_to_add) > 0,
         assets |-> untiered_assets \o assets_to_add]

\* update_untiered_assets on the array of an untiered file: the assets not
\* yet listed are appended, the array is sorted by detectedOn, latest first
update_untiered_assets(untiered_assets, added_assets) ==
    LET assets_to_add ==
            SelectSeq(added_assets,
                      LAMBDA asset : ~InList(asset.id, IdsOf(untiered_assets)))
        all == untiered_assets \o assets_to_add
    IN  [updated |-> Len(assets_to_add) > 0,
         assets |-> StableSort(all, [k \in 1..Len(all) |-> <<0 - all[k].detectedOn>>])]

(***************************************************************************)
(* Steps common to the two scripts                                         *)
(***************************************************************************)
\* what a run never changes
envVars == <<program, project_config, tenant, aat, today, runs_left, files_at_start,
             scopes, arguments, outcome, previous_run>>

\* print(line); exit(): exit() without an argument ends with status 0; a
\* printed line is recorded with the category it is about, or "fatal"
Fatal(line) ==
    /\ stdout' = Append(stdout, <<"fatal", line>>)
    /\ exit_status' = 0
    /\ run_pc' = "exited"
    /\ UNCHANGED run_exc

\* an uncaught exception: traceback, status 1
Crash(e) ==
    /\ run_exc' = e
    /\ exit_status' = 1
    /\ run_pc' = "raised"
    /\ UNCHANGED stdout

NextCategory(c) == IF c = "azure" THEN "entra" ELSE "graph"

\* the line __main__ prints for the first setting that is neither 'true' nor
\* 'false', or "none"
ConfigError(cfg) ==
    IF cfg.keepLocalChanges \notin {"false", "true"}
    THEN "FATAL ERROR - The 'keepLocalChanges' value set in the project's configuration file is invalid."
    ELSE IF cfg.includeOnlyRolesInUse \notin {"false", "true"}
    THEN "FATAL ERROR - The 'includeOnlyRolesInUse' value set in the project's configuration file is invalid."
    ELSE IF cfg.includeIndividualResourceScope \notin {"false", "true"}
    THEN "FATAL ERROR - The 'includeIndividualResourceScope' value set in the project's configuration file is invalid."
    ELSE "none"

\* a run that overrides local changes whatever the configuration says
keep_local_changes_ignored == FALSE

keep_local_changes == project_config.keepLocalChanges = "true"

include_only_roles_in_use == project_config.includeOnlyRolesInUse = "true"

\* the script is started
StartRun ==
    /\ run_pc \in {"idle", "done", "exited", "raised"}
    /\ runs_left > 0
    /\ runs_left' = runs_left - 1
    /\ run_pc' = IF program = "watcher" THEN "w_read" ELSE "s_config"
    /\ category' = "azure"
    /\ tiered_roles' = [c \in Categories |-> <<>>]
    /\ roles_from_aat' = <<>>
    /\ collected_roles' = <<>>
    /\ stdout' = <<>>
    /\ exit_status' = -1
    /\ run_exc' = "none"
    /\ files_at_start' = [tiered |-> tiered_file, untiered |-> untiered_file]
    /\ written' = {}
    /\ calls' = <<>>
    /\ previous_run' = IF run_pc = "idle" THEN "none" ELSE run_pc
    /\ UNCHANGED <<batchVars, program, project_config, tenant, aat, today,
                   tiered_file, untiered_file, scopes, arguments, outcome>>

(***************************************************************************)
(* azTierWatcher.py, __main__                                              *)
(***************************************************************************)
\* read_json_file on the tiered file of the category (lines 929-931)
WatcherReadFile ==
    /\ program = "watcher"
    /\ run_pc = "w_read"
    /\ LET file == tiered_file[category]
       IN  IF file.kind = "malformed"
           THEN /\ Fatal("FATAL ERROR - The JSON file does not contain valid JSON.")
                /\ UNCHANGED <<category, tiered_file, tiered_roles, written>>
           ELSE /\ tiered_roles' = [tiered_roles EXCEPT ![category] = file.content]
                /\ tiered_file' = [tiered_file EXCEPT ![category] = JsonFile(file.content)]
                /\ written' = IF file.kind = "json" THEN written
                              ELSE written \cup {<<"tiered", category>>}
                /\ category' = IF category = "graph" THEN "azure"
                               ELSE NextCategory(category)
                /\ run_pc' = IF category = "graph" THEN "w_config" ELSE "w_read"
                /\ UNCHANGED <<stdout, exit_status, run_exc>>
    /\ UNCHANGED <<batchVars, envVars, calls, untiered_file, roles_from_aat, collected_roles>>

\* the configuration is read and validated (lines 934-962)
WatcherReadConfig ==
    /\ program = "watcher"
    /\ run_pc = "w_config"
    /\ IF ConfigError(project_config) # "none"
       THEN Fatal(ConfigError(project_config))
       ELSE /\ run_pc' = "w_collect"
            /\ UNCHANGED <<stdout, exit_status, run_exc>>
    /\ UNCHANGED <<batchVars, envVars, calls, category, tiered_file, untiered_file,
                   tiered_roles, roles_from_aat, collected_roles, written>>

\* the Azure roles are collected (lines 967-1023): the batch calls complete,
\* or one of them raises, or the custom role listing is refused
WatcherCollectAzure ==
    /\ program = "watcher"
    /\ run_pc = "w_collect"
    /\ category = "azure"
    /\ \E remote \in {"ok", "raised", "refused"} :
        IF remote = "ok"
        THEN /\ collected_roles' = azure_roles(tenant)
             /\ calls' = calls \o watcher_azure_calls(tenant)
             /\ run_pc' = "w_update"
             /\ UNCHANGED <<stdout, exit_status, run_exc>>
        ELSE /\ IF remote = "raised"
                THEN /\ Crash("TypeError: 'NoneType' object is not iterable")
                     /\ \E n \in 2..(Len(watcher_azure_calls(tenant)) - 1) :
                            calls' = calls \o SubSeq(watcher_azure_calls(tenant), 1, n)
                ELSE /\ Fatal("FATAL ERROR - The custom Azure roles could not be retrieved from ARM.")
                     /\ calls' = calls \o watcher_azure_calls(tenant)
             /\ UNCHANGED collected_roles
    /\ UNCHANGED <<batchVars, envVars, category, tiered_file, untiered_file,
                   tiered_roles, roles_from_aat, written>>

\* the custom Entra roles are collected (lines 1045-1057)
WatcherCollectEntra ==
    /\ program = "watcher"
    /\ run_pc = "w_collect"
    /\ category = "entra"
    /\ \E remote \in {"ok", "refused"} :
        IF remote = "ok"
        THEN /\ collected_roles' = custom_entra_roles(tenant)
             /\ run_pc' = "w_update"
             /\ UNCHANGED <<stdout, exit_status, run_exc>>
        ELSE /\ Fatal("FATAL ERROR - The custom Entra roles could not be retrieved from Graph.")
             /\ UNCHANGED collected_roles
    /\ UNCHANGED <<batchVars, envVars, calls, category, tiered_file, untiered_file,
                   tiered_roles, roles_from_aat, written>>

\* the status lines of a category (lines 1035-1040 and 1070-1075)
\* a report that says 'no changes' whenever nothing was removed
WatcherStatus_unless_deleted(c, deleted, detected) ==
    (IF deleted
     THEN <<(<<c, "unused tiered assets have been detected and removed">>)>>
     ELSE <<>>)
    \o (IF detected THEN <<(<<c, "untiered assets have been detected">>)>> ELSE <<>>)
    \o (IF ~deleted THEN <<(<<c, "no changes">>)>> ELSE <<>>)

WatcherStatus(c, deleted, detected) ==
    (IF deleted
     THEN <<(<<c, "unused tiered assets have been detected and removed">>)>>
     ELSE <<>>)
    \o (IF detected THEN <<(<<c, "untiered assets have been detected">>)>> ELSE <<>>)
    \o (IF ~deleted /\ ~detected THEN <<(<<c, "no changes">>)>> ELSE <<>>)

\* update_untiered_assets and update_tiered_assets for a category: the
\* untiered file is read (a missing file is fatal, text that is no JSON
\* raises), extended, sorted and written, then the tiered file is written
WatcherWrite(c, added, tiered, deleted, next_pc) ==
    LET file == untiered_file[c]
        untiered == update_untiered_assets(file.content, added)
    IN  IF file.kind = "json"
        THEN /\ untiered_file' = [untiered_file EXCEPT ![c] = JsonFile(untiered.assets)]
             /\ tiered_roles' = [tiered_roles EXCEPT ![c] = tiered]
             /\ tiered_file' = [tiered_file EXCEPT ![c] = JsonFile(tiered)]
             /\ written' = written \cup {<<"untiered", c>>, <<"tiered", c>>}
             /\ stdout' = stdout \o WatcherStatus(c, deleted, untiered.updated)
             /\ run_pc' = next_pc
             /\ exit_status' = IF next_pc = "done" THEN 0 ELSE exit_status
             /\ UNCHANGED run_exc
        ELSE /\ IF file.kind = "absent"
                THEN Fatal("FATAL ERROR - The untiered file could not be updated.")
                ELSE Crash("json.JSONDecodeError")
             /\ UNCHANGED <<untiered_file, tiered_roles, tiered_file, written>>

\* Azure roles: untiered roles are recorded, tiered roles that the tenant
\* no longer has are removed (lines 1025-1040)
WatcherUpdateAzure ==
    /\ program = "watcher"
    /\ run_pc = "w_update"
    /\ category = "azure"
    /\ LET added_azure_roles ==
               Watcher_find_added_assets(collected_roles, tiered_roles["azure"], today)
           removed_azure_roles ==
               Watcher_find_removed_assets(collected_roles, tiered_roles["azure"])
       IN  WatcherWrite("azure", added_azure_roles,
                        SelectSeq(tiered_roles["azure"],
                                  LAMBDA role : ~InList(role, removed_azure_roles)),
                        Len(removed_azure_roles) > 0, "w_collect")
    /\ category' = IF run_pc' = "w_collect" THEN "entra" ELSE category
    /\ UNCHANGED <<batchVars, envVars, calls, roles_from_aat, collected_roles>>

\* Entra roles: only the tiered roles of type Custom are compared with the
\* custom roles of the tenant (lines 1059-1075)
WatcherUpdateEntra ==
    /\ program = "watcher"
    /\ run_pc = "w_update"
    /\ category = "entra"
    /\ LET tiered_custom_entra_roles ==
               SelectSeq(tiered_roles["entra"], LAMBDA role : role.assetType = "Custom")
           added_custom_entra_roles ==
               Watcher_find_added_assets(collected_roles, tiered_custom_entra_roles, today)
           removed_custom_entra_roles ==
               Watcher_find_removed_assets(collected_roles, tiered_custom_entra_roles)
       IN  WatcherWrite("entra", added_custom_entra_roles,
                        SelectSeq(tiered_roles["entra"],
                                  LAMBDA role : ~InList(role.id,
                                                        IdsOf(removed_custom_entra_roles))),
                        Len(removed_custom_entra_roles) > 0, "done")
    /\ UNCHANGED <<batchVars, envVars, calls, category, roles_from_aat, collected_roles>>

(***************************************************************************)
(* azTierSyncer.py, __main__                                               *)
(***************************************************************************)
\* the configuration is read and validated (lines 1254-1281)
SyncerReadConfig ==
    /\ program = "syncer"
    /\ run_pc = "s_config"
    /\ IF ConfigError(project_config) # "none"
       THEN Fatal(ConfigError(project_config))
       ELSE /\ run_pc' = "s_read"
            /\ UNCHANGED <<stdout, exit_status, run_exc>>
    /\ UNCHANGED <<batchVars, envVars, calls, category, tiered_file, untiered_file,
                   tiered_roles, roles_from_aat, collected_roles, written>>

\* a reader that returns the empty list without creating the file
SyncerReadFile_no_create ==
    /\ program = "syncer"
    /\ run_pc = "s_read"
    /\ LET file == tiered_file[category]
       IN  IF file.kind = "malformed"
           THEN /\ Fatal("FATAL ERROR - The tiered JSON file could not be retrieved.")
                /\ UNCHANGED <<tiered_file, tiered_roles, written>>
           ELSE /\ tiered_roles' = [tiered_roles EXCEPT ![category] = file.content]
                /\ tiered_file' = tiered_file
                /\ written' = IF file.kind = "json" THEN written
                              ELSE written \cup {<<"tiered", category>>}
                /\ run_pc' = "s_fetch"
                /\ UNCHANGED <<stdout, exit_status, run_exc>>
    /\ UNCHANGED <<batchVars, envVars, calls, category, untiered_file, roles_from_aat,
                   collected_roles>>

\* read_tiered_json_file on the tiered file of the category
SyncerReadFile ==
    /\ program = "syncer"
    /\ run_pc = "s_read"
    /\ LET file == tiered_file[category]
       IN  IF file.kind = "malformed"
           THEN /\ Fatal("FATAL ERROR - The tiered JSON file could not be retrieved.")
                /\ UNCHANGED <<tiered_file, tiered_roles, written>>
           ELSE /\ tiered_roles' = [tiered_roles EXCEPT ![category] = file.content]
                /\ tiered_file' = [tiered_file EXCEPT ![category] = JsonFile(file.content)]
                /\ written' = IF file.kind = "json" THEN written
                              ELSE written \cup {<<"tiered", category>>}
                /\ run_pc' = "s_fetch"
                /\ UNCHANGED <<stdout, exit_status, run_exc>>
    /\ UNCHANGED <<batchVars, envVars, calls, category, untiered_file, roles_from_aat,
                   collected_roles>>

\* the upstream list of the category is fetched, or the request is refused
SyncerFetchAat ==
    /\ program = "syncer"
    /\ run_pc = "s_fetch"
    /\ \E remote \in {"ok", "refused"} :
        IF remote = "ok"
        THEN /\ roles_from_aat' = aat[category]
             /\ run_pc' = "s_sync"
             /\ UNCHANGED <<stdout, exit_status, run_exc>>
        ELSE /\ Fatal("FATAL ERROR - The tiered roles could not be retrieved from the AAT project.")
             /\ UNCHANGED roles_from_aat
    /\ UNCHANGED <<batchVars, envVars, calls, category, tiered_file, untiered_file,
                   tiered_roles, collected_roles, written>>

\* sorted(updated, key = lambda x: (x['tier'], x['assetName']))
SortedByTier(roles) ==
    StableSort(roles, [k \in 1..Len(roles) |-> <<roles[k].tier, roles[k].assetName>>])

\* a report that never mentions a change
SyncerStatus_no_change(updated, local) == "no change"

\* the line printed for a category whose list the sync has changed; the
\* lengths are compared after tiered_all_roles_from_local has been reassigned
\* to the sorted updated list (lines 1295-1299)
SyncerStatus(updated, local) ==
    LET has_aat_been_updated == Len(updated) # Len(local)
        tiered_all_roles_from_local == SortedByTier(updated)
    IN  IF ~has_aat_been_updated
        THEN "no change detected in public AzTier, but local changes have been overridden with upstream data"
        ELSE IF Len(updated) < Len(tiered_all_roles_from_local)
        THEN "no change detected in public AzTier, but upstream roles are not used locally anymore and have been removed from tiered assets"
        ELSE "changes have been detected and merged from public AzTier"

\* run_sync_workflow on a copy of the list read; a changed list is sorted
\* and written, and the status line is printed (lines 1290-1306)
SyncerSyncCategory ==
    /\ program = "syncer"
    /\ run_pc = "s_sync"
    /\ \E remote \in {"ok", "failed"} :
        /\ remote = "failed" => include_only_roles_in_use
        /\ LET local == tiered_roles[category]
               result == run_sync_workflow(keep_local_changes,
                                           include_only_roles_in_use, category,
                                           roles_from_aat, local, tenant, remote)
               updated == result.assets
           IN  IF result.outcome = "ok"
               THEN /\ IF updated # local
                       THEN /\ tiered_roles' = [tiered_roles EXCEPT
                                                   ![category] = SortedByTier(updated)]
                            /\ tiered_file' = [tiered_file EXCEPT
                                                  ![category] = JsonFile(SortedByTier(updated))]
                            /\ written' = written \cup {<<"tiered", category>>}
                            /\ stdout' = Append(stdout, <<category, SyncerStatus(updated, local)>>)
                       ELSE /\ stdout' = Append(stdout, <<category, "no change">>)
                            /\ UNCHANGED <<tiered_roles, tiered_file, written>>
                    /\ category' = IF category = "graph" THEN category
                                   ELSE NextCategory(category)
                    /\ run_pc' = IF category = "graph" THEN "done" ELSE "s_read"
                    /\ exit_status' = IF category = "graph" THEN 0 ELSE exit_status
                    /\ UNCHANGED run_exc
               ELSE /\ IF result.outcome = "exit"
                       THEN Fatal("FATAL ERROR - run_sync_workflow")
                       ELSE Crash(result.exc)
                    /\ UNCHANGED <<category, tiered_roles, tiered_file, written>>
    /\ UNCHANGED <<batchVars, envVars, calls, untiered_file, roles_from_aat, collected_roles>>

(***************************************************************************)
(* The repositories, tenants and upstream lists a run can meet             *)
(***************************************************************************)
Ids == 1..MaxIds

\* tiered lists: Built-in and Custom entries with distinct ids, in any order
TieredLists ==
    {l \in UNION {[1..n -> {TieredAsset(i, type, 1) :
                                i \in Ids, type \in {"Built-in", "Custom"}}] :
                     n \in 0..MaxIds} :
        \A i, j \in 1..Len(l) : i # j => l[i].id # l[j].id}

TieredFiles ==
    {JsonFile(l) : l \in TieredLists}
    \cup {NoJsonFile(kind) : kind \in {"empty", "absent", "malformed"}}

\* upstream lists: distinct ids, tier 1 or 2
AatLists ==
    {l \in UNION {[1..n -> {AatAsset(i, tier) : i \in Ids, tier \in {1, 2}}] :
                     n \in 0..MaxIds} :
        \A k \in 1..(Len(l) - 1) : l[k].id < l[k + 1].id}

\* an untiered entry detected on an earlier day
OldUntiered(id) ==
    [detectedOn |-> 1, apiEvent |-> "added", id |-> id, assetName |-> id,
     assetType |-> "Custom", assignableScope |-> "/"]

UntieredFiles ==
    {JsonFile(<<>>), JsonFile(<<OldUntiered(1)>>), NoJsonFile("absent"),
     NoJsonFile("empty")}

AzureRoleStates ==
    {RoleState("none", "unused"), RoleState("CustomRole", "unused")}
    \cup {RoleState(type, use) : type \in {"BuiltInRole", "CustomRole"},
                                 use \in {"active", "both"}}

EntraRoleStates ==
    {EntraState(FALSE, "unused"), EntraState(TRUE, "unused"),
     EntraState(FALSE, "active"), EntraState(FALSE, "eligible")}

\* a tenant with nothing assigned and no custom role
QuietTenant ==
    [pim_arm |-> FALSE, pim_graph |-> FALSE, azure |-> [i \in Ids |-> RoleState("none", "unused")],
     entra |-> [i \in Ids |-> EntraState(FALSE, "unused")], graph |-> {}]

\* the tenants that differ from the quiet one in the roles of one category;
\* eligible assignments exist only where PIM is enabled
Tenants(focus) ==
    IF focus = "azure"
    THEN {[QuietTenant EXCEPT !.pim_arm = pim, !.azure = roles] :
             pim \in BOOLEAN, roles \in [Ids -> AzureRoleStates]}
    ELSE IF focus = "entra"
    THEN {t \in {[QuietTenant EXCEPT !.pim_graph = pim, !.entra = roles] :
                    pim \in BOOLEAN, roles \in [Ids -> EntraRoleStates]} :
             \A i \in Ids : t.entra[i].use = "eligible" => t.pim_graph}
    ELSE {[QuietTenant EXCEPT !.graph = assigned] : assigned \in SUBSET Ids}

Configs ==
    {Config(keep, only, "false") : keep \in {"true", "false"}, only \in {"true", "false"}}
    \cup {Config("true", "yes", "false")}

\* one category holds the lists and roles of interest, the other two are
\* empty; the Watcher never reads the upstream project and never uses
\* keepLocalChanges
StartOfRuns(programs, runs) ==
    /\ NoCall
    /\ program \in programs
    /\ run_pc = "idle"
    /\ category = "azure"
    /\ project_config \in Configs
    /\ program = "watcher" => project_config.keepLocalChanges = "true"
    /\ \E focus \in Categories :
        /\ tenant \in Tenants(focus)
        /\ \E file \in TieredFiles :
            tiered_file = [c \in Categories |->
                              IF c = focus THEN file ELSE JsonFile(<<>>)]
        /\ \E file \in UntieredFiles :
            /\ program = "syncer" \/ focus = "graph" => file = JsonFile(<<>>)
            /\ untiered_file = [c \in Categories |->
                                   IF c = focus THEN file ELSE JsonFile(<<>>)]
        /\ \E list \in AatLists :
            /\ program = "watcher" => list = <<>>
            /\ aat = [c \in Categories |-> IF c = focus THEN list ELSE <<>>]
    /\ tiered_roles = [c \in Categories |-> <<>>]
    /\ roles_from_aat = <<>>
    /\ collected_roles = <<>>
    /\ stdout = <<>>
    /\ exit_status = -1
    /\ run_exc = "none"
    /\ files_at_start = [tiered |-> tiered_file, untiered |-> untiered_file]
    /\ written = {}
    /\ today = 2
    /\ runs_left = runs
    /\ calls = <<>>
    /\ scopes = NoScopes
    /\ arguments = NoArguments
    /\ outcome = NotCalled
    /\ previous_run = "none"

\* one run of either script
InitRuns == StartOfRuns({"watcher", "syncer"}, MaxRuns)

\* the Watcher is run again once the run before has ended
InitReruns == StartOfRuns({"watcher"}, MaxRuns + 1)

NextRuns ==
    \/ StartRun
    \/ WatcherReadFile
    \/ WatcherReadConfig
    \/ WatcherCollectAzure
    \/ WatcherUpdateAzure
    \/ WatcherCollectEntra
    \/ WatcherUpdateEntra
    \/ SyncerReadConfig
    \/ SyncerReadFile
    \/ SyncerFetchAat
    \/ SyncerSyncCategory

\* runs of the Watcher and of the Syncer over a repository
SpecRuns == InitRuns /\ [][NextRuns]_vars

NextReruns ==
    \/ StartRun
    \/ WatcherReadFile
    \/ WatcherReadConfig
    \/ WatcherCollectAzure
    \/ WatcherUpdateAzure
    \/ WatcherCollectEntra
    \/ WatcherUpdateEntra

\* the Syncer is run again once the run before has ended
InitResyncs == StartOfRuns({"syncer"}, MaxRuns + 1)

NextResyncs ==
    \/ StartRun
    \/ SyncerReadConfig
    \/ SyncerReadFile
    \/ SyncerFetchAat
    \/ SyncerSyncCategory

\* the Syncer, run after run over the same upstream lists and tenant
SpecResyncs == InitResyncs /\ [][NextResyncs]_vars

\* the detection workflow starts the Watcher on the repository that a
\* completed run of the Syncer has left
StartWatcherAfterSyncer ==
    /\ program = "syncer"
    /\ run_pc = "done"
    /\ runs_left > 0
    /\ runs_left' = runs_left - 1
    /\ program' = "watcher"
    /\ run_pc' = "w_read"
    /\ category' = "azure"
    /\ tiered_roles' = [c \in Categories |-> <<>>]
    /\ roles_from_aat' = <<>>
    /\ collected_roles' = <<>>
    /\ stdout' = <<>>
    /\ exit_status' = -1
    /\ run_exc' = "none"
    /\ files_at_start' = [tiered |-> tiered_file, untiered |-> untiered_file]
    /\ written' = {}
    /\ calls' = <<>>
    /\ previous_run' = run_pc
    /\ UNCHANGED <<batchVars, project_config, tenant, aat, today,
                   tiered_file, untiered_file, scopes, arguments, outcome>>

\* a run of the Syncer, then a run of either script
InitHandover == StartOfRuns({"syncer"}, MaxRuns + 1)

NextHandover ==
    \/ StartRun
    \/ SyncerReadConfig
    \/ SyncerReadFile
    \/ SyncerFetchAat
    \/ SyncerSyncCategory
    \/ StartWatcherAfterSyncer
    \/ WatcherReadFile
    \/ WatcherReadConfig
    \/ WatcherCollectAzure
    \/ WatcherUpdateAzure
    \/ WatcherCollectEntra
    \/ WatcherUpdateEntra

\* the Watcher runs on a repository the Syncer has synchronised
SpecHandover == InitHandover /\ [][NextHandover]_vars

\* the Watcher, run after run in the same tenant
SpecReruns == InitReruns /\ [][NextReruns]_vars

(***************************************************************************)
(* Properties of the Watcher and Syncer runs                               *)
(***************************************************************************)
\* the entries of type Custom in the tiered file of category c at the start
CustomAtStart(c) ==
    {files_at_start.tiered[c].content[k] :
        k \in {j \in 1..Len(files_at_start.tiered[c].content) :
                  files_at_start.tiered[c].content[j].assetType = "Custom"}}

\* entry e is in the tiered file of category c, unchanged
InTieredFile(c, e) == InList(e, tiered_file[c].content)

\* the ids of the roles the tenant currently has in category c
TenantRoleIds(c) ==
    IF c = "azure" THEN {i \in Ids : tenant.azure[i].type # "none"}
    ELSE IF c = "entra"
    THEN {i \in Ids : tenant.entra[i].custom \/ tenant.entra[i].use # "unused"}
    ELSE tenant.graph

\* the ids of the roles a Watcher run collects for category c
WatcherCollectedIds(c) ==
    IF c = "azure" THEN {azure_roles(tenant)[k].id : k \in 1..Len(azure_roles(tenant))}
    ELSE IF c = "entra"
    THEN {custom_entra_roles(tenant)[k].id : k \in 1..Len(custom_entra_roles(tenant))}
    ELSE {}

RunEnded == run_pc \in {"done", "exited", "raised"}

UnusedBuiltInAtStart ==
    {files_at_start.tiered["azure"].content[k] :
        k \in {j \in 1..Len(files_at_start.tiered["azure"].content) :
                  LET e == files_at_start.tiered["azure"].content[j]
                  IN  /\ e.assetType = "Built-in"
                      /\ tenant.azure[e.id].type # "CustomRole"
                      /\ tenant.azure[e.id].use = "unused"}}

\* the run has printed a status line for category c
StatusPrinted(c) == \E k \in 1..Len(stdout) : stdout[k][1] = c

\* C11: once a Watcher run has updated the Azure files, the tiered Azure file
\* holds no entry with the id of a Built-in role that the start file listed
\* and that is neither assigned nor eligible in the tenant, and the deletion
\* status line for Azure roles has been printed
C11_UnusedBuiltInRemoved ==
    (program = "watcher" /\ StatusPrinted("azure")) =>
        \A e \in UnusedBuiltInAtStart :
            /\ ~InList(e.id, IdsOf(tiered_file["azure"].content))
            /\ InList(<<"azure", "unused tiered assets have been detected and removed">>,
                      stdout)

\* a Watcher run has updated the Azure files of a repository whose tiered
\* file listed an unused Built-in role next to a role that stays
C11_Witness ==
    /\ program = "watcher"
    /\ StatusPrinted("azure")
    /\ UnusedBuiltInAtStart # {}
    /\ <<"tiered", "azure">> \in written
    /\ Len(tiered_file["azure"].content) > 0

(***************************************************************************)
(* run_sync_workflow, as a Syncer run calls it                             *)
(***************************************************************************)
\* role id of category c is assigned, active or eligible in the tenant
InUseInTenant(c, id) ==
    IF c = "azure" THEN tenant.azure[id].use # "unused"
    ELSE IF c = "entra" THEN tenant.entra[id].use # "unused"
    ELSE id \in tenant.graph

\* the Syncer is about to call run_sync_workflow for the current category
AtSync == program = "syncer" /\ run_pc = "s_sync"

\* what the call returns when the calls that collect the roles in use succeed
SyncResult ==
    run_sync_workflow(keep_local_changes, include_only_roles_in_use, category,
                      roles_from_aat, tiered_roles[category], tenant, "ok")

\* the Built-in entries of the local list that the call is given
LocalBuiltIn ==
    {tiered_roles[category][k] :
        k \in {j \in 1..Len(tiered_roles[category]) :
                  tiered_roles[category][j].assetType = "Built-in"}}

\* C12: with includeOnlyRolesInUse=true, a call of run_sync_workflow whose
\* local list holds a Built-in role that is not in use and that the upstream
\* list does not contain completes and returns a list without that role,
\* whatever keepLocalChanges and the upstream list are
C12_UnusedUnlistedRoleDropped ==
    (AtSync /\ include_only_roles_in_use) =>
        \A role \in LocalBuiltIn :
            (~InUseInTenant(category, role.id)
             /\ ~InList(role.id, IdsOf(roles_from_aat)))
                => /\ SyncResult.outcome = "ok"
                   /\ ~InList(role.id, IdsOf(SyncResult.assets))

\* the local list of category c as the Syncer read it at the start of the run
LocalAtStart(c) == files_at_start.tiered[c].content

\* the Syncer has run run_sync_workflow for category c and gone on
Synced(c) == program = "syncer" /\ StatusPrinted(c)

\* C13: with includeOnlyRolesInUse=true, an upstream entry whose id is not in
\* the local list and is not in use in the tenant is not in the list that
\* run_sync_workflow returns, for azure, entra and graph: neither in the value
\* of the call about to be made nor in the list kept after the call
C13_UnusedUpstreamRoleNotAdded ==
    include_only_roles_in_use =>
        /\ AtSync =>
               \A k \in 1..Len(roles_from_aat) :
                   (/\ ~InList(roles_from_aat[k].id, IdsOf(tiered_roles[category]))
                    /\ ~InUseInTenant(category, roles_from_aat[k].id)
                    /\ SyncResult.outcome = "ok")
                       => ~InList(roles_from_aat[k].id, IdsOf(SyncResult.assets))
        /\ \A c \in Categories : Synced(c) =>
               \A k \in 1..Len(aat[c]) :
                   (/\ ~InList(aat[c][k].id, IdsOf(LocalAtStart(c)))
                    /\ ~InUseInTenant(c, aat[c][k].id))
                       => ~InList(aat[c][k].id, IdsOf(tiered_roles[c]))

\* a sync with includeOnlyRolesInUse=true has added one upstream role that is
\* in use and left out another that is not
C13_Witness ==
    /\ include_only_roles_in_use
    /\ \E c \in Categories :
        /\ Synced(c)
        /\ \E k, m \in 1..Len(aat[c]) :
            /\ ~InList(aat[c][k].id, IdsOf(LocalAtStart(c)))
            /\ ~InUseInTenant(c, aat[c][k].id)
            /\ ~InList(aat[c][k].id, IdsOf(tiered_roles[c]))
            /\ ~InList(aat[c][m].id, IdsOf(LocalAtStart(c)))
            /\ InList(aat[c][m].id, IdsOf(tiered_roles[c]))

\* C14: for azure, entra and graph, a call of run_sync_workflow whose local
\* list holds a Built-in entry with an id that the upstream list does not
\* contain completes and returns a list without an entry of that id
C14_UnlistedBuiltInRemoved ==
    AtSync =>
        \A role \in LocalBuiltIn :
            ~InList(role.id, IdsOf(roles_from_aat))
                => /\ SyncResult.outcome = "ok"
                   /\ ~InList(role.id, IdsOf(SyncResult.assets))

\* the local Built-in entry is one the sync retains: its id is listed upstream
\* and, when only roles in use are included, it is in use
Retained(c, role, upstream) ==
    /\ role.assetType = "Built-in"
    /\ InList(role.id, IdsOf(upstream))
    /\ include_only_roles_in_use => InUseInTenant(c, role.id)

\* C15: with keepLocalChanges=true, every local Built-in entry that the sync
\* retains is in the list run_sync_workflow returns, and in the list kept
\* after the call, with every field as it was, also where the upstream record
\* of its id has other values
C15_LocalEntriesKept ==
    project_config.keepLocalChanges = "true" =>
        /\ (AtSync /\ SyncResult.outcome = "ok") =>
               \A role \in LocalBuiltIn :
                   Retained(category, role, roles_from_aat)
                       => InList(role, SyncResult.assets)
        /\ \A c \in Categories : Synced(c) =>
               \A k \in 1..Len(LocalAtStart(c)) :
                   Retained(c, LocalAtStart(c)[k], aat[c])
                       => InList(LocalAtStart(c)[k], tiered_roles[c])

\* a sync with keepLocalChanges=true has kept a local entry whose tier is not
\* the tier of the upstream record, and has rewritten the file
C15_Witness ==
    /\ project_config.keepLocalChanges = "true"
    /\ \E c \in Categories :
        /\ Synced(c)
        /\ <<"tiered", c>> \in written
        /\ \E k \in 1..Len(LocalAtStart(c)) :
            /\ Retained(c, LocalAtStart(c)[k], aat[c])
            /\ FirstWithId(aat[c], LocalAtStart(c)[k].id).tier # LocalAtStart(c)[k].tier
            /\ InList(LocalAtStart(c)[k], tiered_roles[c])

\* the local entry and the upstream record disagree on a field both have
Differs(role, upstream_role) ==
    \E f \in (DOMAIN role) \cap (DOMAIN upstream_role) : role[f] # upstream_role[f]

\* C16: with keepLocalChanges=false, in the list a completed call of
\* run_sync_workflow returns, every retained local Built-in entry that differs
\* from the upstream record of its id in a shared field has given its place
\* (the place among the local entries that remain) to the upstream record
\* with assetType 'Built-in' and assignableScope '/', which carries the
\* upstream values; the list kept after the call holds that record and no
\* longer the local entry
C16_ModifiedEntriesOverridden ==
    project_config.keepLocalChanges = "false" =>
        /\ (AtSync /\ SyncResult.outcome = "ok") =>
               LET local == tiered_roles[category]
                   result == SyncResult.assets
               IN  \A j \in 1..Len(local) :
                       (/\ Retained(category, local[j], roles_from_aat)
                        /\ Differs(local[j], FirstWithId(roles_from_aat, local[j].id)))
                           => LET place == Cardinality({m \in 1..j :
                                              InList(local[m].id, IdsOf(result))})
                                  upstream_role == FirstWithId(roles_from_aat, local[j].id)
                              IN  /\ place \in 1..Len(result)
                                  /\ result[place] =
                                         [id |-> upstream_role.id,
                                          assetName |-> upstream_role.assetName,
                                          tier |-> upstream_role.tier,
                                          assetType |-> "Built-in",
                                          assignableScope |-> "/"]
                                  /\ ~InList(local[j], result)
        /\ \A c \in Categories : Synced(c) =>
               \A k \in 1..Len(LocalAtStart(c)) :
                   (/\ Retained(c, LocalAtStart(c)[k], aat[c])
                    /\ Differs(LocalAtStart(c)[k], FirstWithId(aat[c], LocalAtStart(c)[k].id)))
                       => /\ InList(Enriched(FirstWithId(aat[c], LocalAtStart(c)[k].id)),
                                    tiered_roles[c])
                          /\ ~InList(LocalAtStart(c)[k], tiered_roles[c])

\* a sync with keepLocalChanges=false has overridden the second of two local
\* entries with an upstream record of another tier
C16_Witness ==
    /\ project_config.keepLocalChanges = "false"
    /\ \E c \in Categories :
        /\ Synced(c)
        /\ <<"tiered", c>> \in written
        /\ Len(LocalAtStart(c)) > 1
        /\ Retained(c, LocalAtStart(c)[2], aat[c])
        /\ FirstWithId(aat[c], LocalAtStart(c)[2].id).tier # LocalAtStart(c)[2].tier
        /\ InList(Enriched(FirstWithId(aat[c], LocalAtStart(c)[2].id)), tiered_roles[c])

(***************************************************************************)
(* Fatal endings                                                           *)
(***************************************************************************)
\* C17: when a run has ended on a fatal condition, every tiered file and
\* every untiered file is as it was when the run started
C17_NoWriteBeforeFatal ==
    run_pc = "exited" =>
        /\ tiered_file = files_at_start.tiered
        /\ untiered_file = files_at_start.untiered

\* C18: a run that a fatal condition has ended has printed its FATAL ERROR
\* line last and has left a non-zero exit status
C18_FatalExitsNonZero ==
    run_pc = "exited" =>
        /\ Len(stdout) > 0
        /\ stdout[Len(stdout)][1] = "fatal"
        /\ exit_status # 0

(***************************************************************************)
(* The scope enumerator, first stage                                       *)
(***************************************************************************)
\* the two requests of the first stage: the management-group listing (url 1)
\* and the subscription listing (url 2), neither with a 'name'
ScopeRequests == [i \in 1..2 |-> NamelessRequest(i)]

\* the ids in the 'value' array of a listing
ListedIds(url) ==
    IF url = ScopeRequests[1].url
    THEN <<"/providers/Microsoft.Management/managementGroups/mg">>
    ELSE <<"/subscriptions/s1", "/subscriptions/s2">>

\* subscription_responses = http_responses[1]['content']['value']: the ids
\* the enumerator asks the resource groups of
subscription_resource_ids(http_responses) == ListedIds(http_responses[2].content)

\* C19: when the call for the management-group and the subscription listing
\* returns both items, in whatever order they arrived and also after a retry
\* round, the ids the enumerator uses as subscriptions for the resource-group
\* stage are the ids of the subscription listing
C19_SubscriptionsByRequest ==
    (/\ batch_requests = ScopeRequests
     /\ pc = "returned"
     /\ Len(complete_response) = 2)
        => subscription_resource_ids(complete_response)
               = ListedIds(ScopeRequests[2].url)

\* C20: every request of every POST to the batch endpoint has a name, and no
\* two requests of one POST have the same name
C20_RequestsNamed ==
    \A k \in 1..Len(body) :
        /\ body[k].name # NoName
        /\ \A j \in 1..Len(body) : j # k => body[j].name # body[k].name

(***************************************************************************)
(* The scope enumerators, stage by stage                                   *)
(***************************************************************************)
\* the resource groups ARM lists for a subscription id, none for another id
ResourceGroupsOf(id) ==
    IF id = "/subscriptions/s1" THEN <<"/subscriptions/s1/resourceGroups/g1">>
    ELSE IF id = "/subscriptions/s2" THEN <<"/subscriptions/s2/resourceGroups/g2">>
    ELSE <<>>

\* the resources ARM lists for a resource group id
ResourcesOf(id) ==
    IF id = "/subscriptions/s1/resourceGroups/g1"
    THEN <<"/subscriptions/s1/resourceGroups/g1/providers/p/r1">>
    ELSE <<>>

\* http_responses = send_batch_request_to_arm(batch_requests): a new call
StartCall(requests) ==
    /\ batch_requests' = requests
    /\ pc' = "chunk"
    /\ exc' = "none"
    /\ chunk_index' = 0
    /\ chunked_batch_request' = <<>>
    /\ remaining_requests' = <<>>
    /\ complete_response' = <<>>
    /\ tokens_acquired' = 0
    /\ body' = <<>>
    /\ round' = 0
    /\ http_response' = [status_code |-> NoAnswer, retryAfter |-> NoHeader]
    /\ retry_after_x_seconds' = NoHeader
    /\ all_responses' = <<>>
    /\ next_page' = FALSE
    /\ api_items' = <<>>
    /\ api_rest' = <<>>
    /\ pages_served' = <<>>
    /\ answered_200' = {}
    /\ answered_dropped' = {}
    /\ answered_retry' = {}
    /\ slept' = <<>>
    /\ retryable_left' = MaxRetryable
    /\ polls_left' = MaxPolls
    /\ naps' = 0

\* one request with a fresh uuid name per id, submitted as the stage kind
SubmitStage(kind, ids) ==
    /\ StartCall([k \in 1..Len(ids) |-> NamedRequest(k)])
    /\ calls' = Append(calls, [call |-> kind, of |-> ids])

\* sum([response['content']['value'] for response in http_responses], []):
\* the listing of every returned item, in the order of the result; item k of
\* a stage answers the request made for ids[k]
ListedUnder(http_responses, ids, kind) ==
    Flatten([k \in 1..Len(http_responses) |->
                IF kind = "resourceGroups"
                THEN ResourceGroupsOf(ids[http_responses[k].content])
                ELSE ResourcesOf(ids[http_responses[k].content])])

\* what the enumerator returns: higher_scopes, or all_scopes
all_scopes == scopes.mg \o scopes.subscription \o scopes.rg \o scopes.resource

\* get_resource_id_of_all_scopes_from_arm when includeIndividualResourceScope
\* is set, get_resource_id_of_higher_scopes_from_arm otherwise
\* an enumerator that always goes on to the resources
include_individual_resource_scope_always == TRUE

include_individual_resource_scope ==
    project_config.includeIndividualResourceScope = "true"

\* the call of a stage has returned: None is fatal, a result is read and the
\* next stage is submitted or the scopes are returned
ScopeStageReturned ==
    /\ program = "scopes"
    /\ run_pc \in {"stage1", "stage2", "stage3"}
    /\ pc \in {"returned", "returned_none"}
    /\ IF pc = "returned_none"
       THEN /\ Fatal("FATAL ERROR - The Azure scopes could not be retrieved from ARM.")
            /\ UNCHANGED <<batchVars, calls, scopes>>
       ELSE IF run_pc = "stage1"
       THEN IF Len(complete_response) < 2
            THEN /\ Crash("IndexError: list index out of range")
                 /\ UNCHANGED <<batchVars, calls, scopes>>
            ELSE /\ scopes' = [scopes EXCEPT
                                  !.mg = ListedIds(complete_response[1].content),
                                  !.subscription = subscription_resource_ids(complete_response)]
                 /\ SubmitStage("resourceGroups", scopes'.subscription)
                 /\ run_pc' = "stage2"
                 /\ UNCHANGED <<stdout, exit_status, run_exc>>
       ELSE IF run_pc = "stage2"
       THEN /\ scopes' = [scopes EXCEPT
                             !.rg = ListedUnder(complete_response, scopes.subscription,
                                                "resourceGroups")]
            /\ IF include_individual_resource_scope
               THEN /\ SubmitStage("resources", scopes'.rg)
                    /\ run_pc' = "stage3"
               ELSE /\ run_pc' = "returned"
                    /\ UNCHANGED <<batchVars, calls>>
            /\ UNCHANGED <<stdout, exit_status, run_exc>>
       ELSE /\ scopes' = [scopes EXCEPT
                             !.resource = ListedUnder(complete_response, scopes.rg,
                                                      "resources")]
            /\ run_pc' = "returned"
            /\ UNCHANGED <<batchVars, calls, stdout, exit_status, run_exc>>
    /\ UNCHANGED <<program, category, project_config, tenant, aat, tiered_file,
                   untiered_file, tiered_roles, roles_from_aat, collected_roles,
                   files_at_start, written, today, runs_left, arguments, outcome,
                   previous_run>>

\* an exception raised in send_batch_request_to_arm is caught nowhere
ScopeCallRaised ==
    /\ program = "scopes"
    /\ run_pc \in {"stage1", "stage2", "stage3"}
    /\ pc = "raised"
    /\ Crash(exc)
    /\ UNCHANGED <<batchVars, calls, scopes, program, category, project_config,
                   tenant, aat, tiered_file, untiered_file, tiered_roles,
                   roles_from_aat, collected_roles, files_at_start, written, today,
                   runs_left, arguments, outcome, previous_run>>

\* an enumerator is called and submits its first stage
InitScopes ==
    /\ InitCall({ScopeRequests})
    /\ program = "scopes"
    /\ run_pc = "stage1"
    /\ category = "azure"
    /\ project_config \in {Config("true", "false", individual) :
                               individual \in {"true", "false"}}
    /\ tenant = [pim_arm |-> FALSE, pim_graph |-> FALSE, azure |-> <<>>,
                 entra |-> <<>>, graph |-> {}]
    /\ aat = [c \in Categories |-> <<>>]
    /\ tiered_file = [c \in Categories |-> JsonFile(<<>>)]
    /\ untiered_file = [c \in Categories |-> JsonFile(<<>>)]
    /\ tiered_roles = [c \in Categories |-> <<>>]
    /\ roles_from_aat = <<>>
    /\ collected_roles = <<>>
    /\ stdout = <<>>
    /\ exit_status = -1
    /\ run_exc = "none"
    /\ files_at_start = [tiered |-> tiered_file, untiered |-> untiered_file]
    /\ written = {}
    /\ today = 0
    /\ runs_left = 0
    /\ calls = <<[call |-> "managementGroups, subscriptions", of |-> <<>>]>>
    /\ scopes = NoScopes
    /\ arguments = NoArguments
    /\ outcome = NotCalled
    /\ previous_run = "none"

NextScopes ==
    \/ NextBatch
    \/ ScopeStageReturned
    \/ ScopeCallRaised

\* a call of a scope enumerator, with the batch calls of its stages
SpecScopes == InitScopes /\ [][NextScopes]_vars

(***************************************************************************)
(* Properties of the scope enumerators                                     *)
(***************************************************************************)
\* the batch call of the current stage got no result from its handler: the
\* POST was refused or the poll failed, which the client turns into this error
StageWithoutResult == exc = "TypeError: 'NoneType' object is not iterable"

\* C21: when the batch call of a stage has yielded no result and the
\* enumerator has ended, it has printed 'FATAL ERROR - The Azure scopes could
\* not be retrieved from ARM.' and exited, without a later stage and without
\* a scope list
C21_NoResultIsFatal ==
    (program = "scopes" /\ RunEnded /\ StageWithoutResult) =>
        /\ run_pc = "exited"
        /\ stdout = <<(<<"fatal", "FATAL ERROR - The Azure scopes could not be retrieved from ARM.">>)>>

\* C22: the enumerator submits its stages in order, each only once the call
\* of the stage before has returned: first the management groups and
\* subscriptions, then one resource-group request per subscription id it
\* discovered, then, only when includeIndividualResourceScope is true, one
\* resources request per resource group id it discovered; with the flag
\* false no resources request is issued and the list returned is the
\* management groups, the subscriptions and the resource groups, in the order
\* of discovery
C22_StagesInOrder ==
    /\ [](program = "scopes" =>
            /\ Len(calls) \in 1..3
            /\ calls[1].call = "managementGroups, subscriptions"
            /\ run_pc = "stage1" => Len(calls) = 1
            /\ run_pc \in {"stage2", "stage3", "returned"} => Len(calls) >= 2
            /\ Len(calls) >= 2 =>
                   /\ calls[2] = [call |-> "resourceGroups", of |-> scopes.subscription]
                   /\ run_pc = "stage2" =>
                          Len(batch_requests) = Len(scopes.subscription)
            /\ Len(calls) = 3 =>
                   /\ project_config.includeIndividualResourceScope = "true"
                   /\ calls[3] = [call |-> "resources", of |-> scopes.rg]
                   /\ run_pc = "stage3" => Len(batch_requests) = Len(scopes.rg)
            /\ (run_pc = "returned"
                /\ project_config.includeIndividualResourceScope = "false") =>
                   /\ Len(calls) = 2
                   /\ all_scopes = scopes.mg \o scopes.subscription \o scopes.rg
                   /\ scopes.rg = ListedUnder(complete_response, scopes.subscription,
                                              "resourceGroups"))
    /\ [][(program = "scopes" /\ Len(calls') > Len(calls)) =>
              (pc = "returned" /\ Len(calls') = Len(calls) + 1)]_vars

\* with the flag false an enumerator has returned two subscriptions and
\* their two resource groups after two stages
C22_Witness ==
    /\ program = "scopes"
    /\ run_pc = "returned"
    /\ project_config.includeIndividualResourceScope = "false"
    /\ Len(calls) = 2
    /\ Len(scopes.subscription) = 2
    /\ Len(scopes.rg) = 2

(***************************************************************************)
(* Properties of the token of a chunk                                      *)
(***************************************************************************)
\* C23: send_batch_request_to_arm acquires a token once per chunk, at the
\* start of the chunk and before its first POST, and no POST, retry POST,
\* poll or page request of the chunk acquires another: while chunk k is being
\* worked on, the token in use is the k-th one acquired, and the call returns
\* with as many acquisitions as chunks
C23_OneTokenPerChunk ==
    /\ [](program = "none" =>
            /\ tokens_acquired = chunk_index
            /\ pc = "returned" =>
                   tokens_acquired = Len(chunked_batch_requests(batch_requests)))
    /\ [][(program = "none" /\ tokens_acquired' # tokens_acquired) =>
              /\ pc = "chunk"
              /\ tokens_acquired' = tokens_acquired + 1
              /\ chunk_index' = chunk_index + 1
              /\ round' = 0]_vars

\* the second chunk is submitted again after a retryable answer, with the
\* second token
C23_Witness ==
    /\ program = "none"
    /\ chunk_index = 2
    /\ round = 2
    /\ pc \notin {"chunk", "post", "returned"}
    /\ tokens_acquired = 2

(***************************************************************************)
(* Properties of the PIM probe of the Watcher                              *)
(***************************************************************************)
CalledTimes(name) == Cardinality({k \in 1..Len(calls) : calls[k].call = name})

\* C24: a Watcher run probes for PIM once, as its first remote call, and the
\* answer decides the collectors of the whole run: with PIM the active and
\* the eligible collector and never the collector of permanent assignments,
\* without PIM the collector of permanent assignments and neither of the
\* other two
C24_ProbeDecidesCollectors ==
    (program = "watcher" /\ calls # <<>>) =>
        /\ calls[1].call = "is_pim_enabled_for_arm"
        /\ CalledTimes("is_pim_enabled_for_arm") = 1
        /\ tenant.pim_arm =>
               /\ CalledTimes("get_role_definition_id_of_assigned_azure_roles_within_scope_from_arm") = 0
               /\ CalledTimes("get_custom_azure_role_definitions_from_arm") = 1 =>
                      /\ CalledTimes("get_role_definition_id_of_active_azure_roles_within_scope_from_arm") = 1
                      /\ CalledTimes("get_role_definition_id_of_eligible_azure_roles_within_scope_from_arm") = 1
        /\ ~tenant.pim_arm =>
               /\ CalledTimes("get_role_definition_id_of_active_azure_roles_within_scope_from_arm") = 0
               /\ CalledTimes("get_role_definition_id_of_eligible_azure_roles_within_scope_from_arm") = 0
               /\ CalledTimes("get_custom_azure_role_definitions_from_arm") = 1 =>
                      CalledTimes("get_role_definition_id_of_assigned_azure_roles_within_scope_from_arm") = 1

\* a Watcher run in a tenant with PIM has collected the roles that are
\* active or eligible
C24_Witness ==
    /\ program = "watcher"
    /\ tenant.pim_arm
    /\ run_pc = "done"
    /\ CalledTimes("get_role_definition_id_of_eligible_azure_roles_within_scope_from_arm") = 1

(***************************************************************************)
(* The collectors' list of unique ids and the differs, called on their own *)
(***************************************************************************)
\* the id of a role definition as a scope returns it: a path that ends in
\* the role id
DefinitionIdAt(scope, id) == <<scope, "roleDefinitions", id>>

\* a list that keeps every id returned
unique_role_definition_ids_keep_all(role_definition_ids) == role_definition_ids

\* [i for i in role_definition_ids if i.split("/")[-1] not in unique_role_ids
\*    and not unique_role_ids.add(i.split("/")[-1])], unique_role_ids = set()
unique_role_definition_ids(role_definition_ids) ==
    LET unique_role_ids(k) ==
            {LastSegment(role_definition_ids[j]) : j \in 1..(k - 1)}
        kept == {k \in 1..Len(role_definition_ids) :
                    LastSegment(role_definition_ids[k]) \notin unique_role_ids(k)}
    IN  [n \in 1..Cardinality(kept) |-> role_definition_ids[Ascending(kept)[n]]]

\* the call returns, exits or raises
Ends(result) ==
    /\ outcome = NotCalled
    /\ outcome' = result
    /\ UNCHANGED <<batchVars, program, run_pc, category, project_config, tenant, aat,
                   tiered_file, untiered_file, tiered_roles, roles_from_aat,
                   collected_roles, stdout, exit_status, run_exc, files_at_start,
                   written, today, runs_left, calls, scopes, arguments, previous_run>>

\* one of the three collectors turns the ids of the assignments into its list
CollectorReturns ==
    /\ arguments.function \in
           {"get_role_definition_id_of_assigned_azure_roles_within_scope_from_arm",
            "get_role_definition_id_of_active_azure_roles_within_scope_from_arm",
            "get_role_definition_id_of_eligible_azure_roles_within_scope_from_arm"}
    /\ Ends(Returned(unique_role_definition_ids(arguments.role_definition_ids)))

SyncerFindAddedEnds ==
    /\ arguments.function = "azTierSyncer.find_added_assets"
    /\ Ends(Syncer_find_added_assets(arguments.extended_assets, arguments.base_assets))

SyncerFindRemovedEnds ==
    /\ arguments.function = "azTierSyncer.find_removed_assets"
    /\ Ends(Syncer_find_removed_assets(arguments.extended_assets, arguments.base_assets))

SyncerFindModifiedEnds ==
    /\ arguments.function = "azTierSyncer.find_modified_assets"
    /\ Ends(find_modified_assets(arguments.extended_assets, arguments.base_assets))

WatcherFindAddedEnds ==
    /\ arguments.function = "azTierWatcher.find_added_assets"
    /\ Ends(Returned(Watcher_find_added_assets(arguments.extended_assets,
                                               arguments.base_assets, today)))

WatcherFindRemovedEnds ==
    /\ arguments.function = "azTierWatcher.find_removed_assets"
    /\ Ends(Returned(Watcher_find_removed_assets(arguments.extended_assets,
                                                 arguments.base_assets)))

\* the lists of at most MaxListed elements of a set
ListsOf(S) == UNION {[1..n -> S] : n \in 0..MaxListed}

\* a function is called with lists that may repeat an id
InitCalls ==
    /\ NoCall
    /\ program = "function"
    /\ run_pc = "idle"
    /\ category = "azure"
    /\ project_config = Config("false", "false", "false")
    /\ tenant = [pim_arm |-> FALSE, pim_graph |-> FALSE, azure |-> <<>>,
                 entra |-> <<>>, graph |-> {}]
    /\ aat = [c \in Categories |-> <<>>]
    /\ tiered_file = [c \in Categories |-> JsonFile(<<>>)]
    /\ untiered_file = [c \in Categories |-> JsonFile(<<>>)]
    /\ tiered_roles = [c \in Categories |-> <<>>]
    /\ roles_from_aat = <<>>
    /\ collected_roles = <<>>
    /\ stdout = <<>>
    /\ exit_status = -1
    /\ run_exc = "none"
    /\ files_at_start = [tiered |-> tiered_file, untiered |-> untiered_file]
    /\ written = {}
    /\ today = 2
    /\ runs_left = 0
    /\ calls = <<>>
    /\ scopes = NoScopes
    /\ previous_run = "none"
    /\ outcome = NotCalled
    /\ \/ \E f \in {"get_role_definition_id_of_assigned_azure_roles_within_scope_from_arm",
                    "get_role_definition_id_of_active_azure_roles_within_scope_from_arm",
                    "get_role_definition_id_of_eligible_azure_roles_within_scope_from_arm"},
             ids \in ListsOf({DefinitionIdAt(scope, id) :
                                 scope \in {"s1", "s2"}, id \in Ids}) :
            arguments = [NoArguments EXCEPT !.function = f,
                                            !.role_definition_ids = ids]
       \/ \E f \in {"azTierSyncer.find_added_assets", "azTierSyncer.find_removed_assets",
                    "azTierSyncer.find_modified_assets"},
             extended \in ListsOf({AatAsset(id, tier) : id \in Ids, tier \in 0..1}),
             base \in ListsOf({TieredAsset(id, "Built-in", tier) :
                                  id \in Ids, tier \in 0..1}) :
            arguments = [NoArguments EXCEPT !.function = f,
                                            !.extended_assets = extended,
                                            !.base_assets = base]
       \/ \E f \in {"azTierWatcher.find_added_assets",
                    "azTierWatcher.find_removed_assets"},
             extended \in ListsOf({WatcherRole(id, type) :
                                      id \in Ids, type \in {"Built-in", "Custom"}}),
             base \in ListsOf({TieredAsset(id, "Built-in", tier) :
                                  id \in Ids, tier \in 0..1}) :
            arguments = [NoArguments EXCEPT !.function = f,
                                            !.extended_assets = extended,
                                            !.base_assets = base]

NextCalls ==
    \/ CollectorReturns
    \/ SyncerFindAddedEnds
    \/ SyncerFindRemovedEnds
    \/ SyncerFindModifiedEnds
    \/ WatcherFindAddedEnds
    \/ WatcherFindRemovedEnds

\* single calls of a collector's list of unique ids and of the differs
SpecCalls == InitCalls /\ [][NextCalls]_vars

(***************************************************************************)
(* Properties of the collectors' list                                      *)
(***************************************************************************)
CollectorReturned ==
    /\ program = "function"
    /\ arguments.role_definition_ids # <<>>
    /\ outcome.outcome = "ok"

\* C25: the list a collector returns holds no two ids with the same last
\* path segment, and for every last segment among the ids of the assignments
\* it holds the first id with that segment, in the order of the assignments
C25_UniqueByLastSegment ==
    CollectorReturned =>
        LET ids == arguments.role_definition_ids
            list == outcome.assets
            FirstOf(segment) ==
                ids[CHOOSE k \in 1..Len(ids) :
                       /\ LastSegment(ids[k]) = segment
                       /\ \A j \in 1..(k - 1) : LastSegment(ids[j]) # segment]
        IN  /\ \A i, j \in 1..Len(list) :
                   i # j => LastSegment(list[i]) # LastSegment(list[j])
            /\ {LastSegment(list[i]) : i \in 1..Len(list)}
                   = {LastSegment(ids[k]) : k \in 1..Len(ids)}
            /\ \A i \in 1..Len(list) : list[i] = FirstOf(LastSegment(list[i]))
            /\ \A i, j \in 1..Len(list) :
                   i < j => \E a, b \in 1..Len(ids) :
                               a < b /\ ids[a] = list[i] /\ ids[b] = list[j]

\* two scopes returned the same role: the id of the first scope is kept
C25_Witness ==
    /\ CollectorReturned
    /\ arguments.role_definition_ids
           = <<DefinitionIdAt("s2", 1), DefinitionIdAt("s1", 1)>>
    /\ outcome.assets = <<DefinitionIdAt("s2", 1)>>

(***************************************************************************)
(* Properties of the differs                                               *)
(***************************************************************************)
IdSet(assets) == {assets[k].id : k \in 1..Len(assets)}

CommonIds == IdSet(arguments.extended_assets) \cap IdSet(arguments.base_assets)

DifferEnded(functions) ==
    /\ program = "function"
    /\ arguments.function \in functions
    /\ outcome # NotCalled

\* C26: when the extended list is at least as long as the base list,
\* find_added_assets returns assets whose ids, together with the ids the two
\* lists share, are the ids of the extended list, and find_removed_assets
\* returns assets whose ids, together with the shared ids, are the ids of the
\* base list; neither result holds a shared id
C26_AddedRemovedPartition ==
    Len(arguments.extended_assets) >= Len(arguments.base_assets) =>
        /\ DifferEnded({"azTierSyncer.find_added_assets",
                        "azTierWatcher.find_added_assets"}) =>
               /\ outcome.outcome = "ok"
               /\ IdSet(outcome.assets) \cup CommonIds = IdSet(arguments.extended_assets)
               /\ IdSet(outcome.assets) \cap CommonIds = {}
        /\ DifferEnded({"azTierSyncer.find_removed_assets",
                        "azTierWatcher.find_removed_assets"}) =>
               /\ outcome.outcome = "ok"
               /\ IdSet(outcome.assets) \cup CommonIds = IdSet(arguments.base_assets)
               /\ IdSet(outcome.assets) \cap CommonIds = {}

\* find_added_assets of the Syncer has returned one added asset for an
\* extended list that also holds an id of the base list
C26_Witness ==
    /\ DifferEnded({"azTierSyncer.find_added_assets"})
    /\ Len(arguments.extended_assets) = 2
    /\ Len(arguments.base_assets) = 1
    /\ Cardinality(CommonIds) = 1
    /\ Len(outcome.assets) = 1

\* a base asset differs from the extended asset of the same id in a field
\* that both have
DiffersFromExtended(base_asset) ==
    /\ InList(base_asset.id, IdsOf(arguments.extended_assets))
    /\ LET extended_asset == FirstWithId(arguments.extended_assets, base_asset.id)
       IN  \E f \in (DOMAIN base_asset) \cap (DOMAIN extended_asset) :
               base_asset[f] # extended_asset[f]

\* C27: when the extended list is at least as long as the base list,
\* find_modified_assets returns, and the records it returns are exactly the
\* base assets that have an asset of the same id in the extended list and
\* differ from it in a shared field; a base asset without an asset of the same
\* id in the extended list is left out and is no error
C27_ModifiedExactly ==
    (/\ DifferEnded({"azTierSyncer.find_modified_assets"})
     /\ Len(arguments.extended_assets) >= Len(arguments.base_assets)) =>
        /\ outcome.outcome = "ok"
        /\ {outcome.assets[k] : k \in 1..Len(outcome.assets)}
               = {arguments.base_assets[k] :
                     k \in {j \in 1..Len(arguments.base_assets) :
                               DiffersFromExtended(arguments.base_assets[j])}}

\* C28: every differ of the Watcher and of the Syncer that is called with
\* fewer extended assets than base assets ends the process and returns no
\* list
C28_ShorterExtendedIsFatal ==
    (/\ DifferEnded({"azTierSyncer.find_added_assets",
                     "azTierSyncer.find_removed_assets",
                     "azTierSyncer.find_modified_assets",
                     "azTierWatcher.find_added_assets",
                     "azTierWatcher.find_removed_assets"})
     /\ Len(arguments.extended_assets) < Len(arguments.base_assets)) =>
        /\ outcome.outcome = "exit"
        /\ outcome.assets = <<>>

(***************************************************************************)
(* Properties of the Watcher, run after run                                *)
(***************************************************************************)
\* C29: a Watcher run that follows a completed Watcher run in the same
\* tenant leaves every tiered and untiered file as the run before left it:
\* nothing is appended, removed or moved
C29_SecondRunChangesNothing ==
    (program = "watcher" /\ previous_run = "done") =>
        /\ tiered_file = files_at_start.tiered
        /\ untiered_file = files_at_start.untiered

\* the first run appended an entry to the untiered Azure file, the second
\* run has completed and has written its files
C29_Witness ==
    /\ program = "watcher"
    /\ previous_run = "done"
    /\ run_pc = "done"
    /\ Len(untiered_file["azure"].content) = 2
    /\ <<"untiered", "azure">> \in written

\* the number of times an entry occurs in a list
Occurrences(entry, list) == Cardinality({k \in 1..Len(list) : list[k] = entry})

\* C30: whatever Watcher runs have taken place, every entry the untiered file
\* of a category held when a run began is still in the file, with the same
\* field values, during and after the run, also when its asset is tiered by
\* now or is no longer in the tenant, and the entries of the file are in
\* descending order of detectedOn
C30_UntieredEntriesKept ==
    program = "watcher" =>
        \A c \in Categories :
            LET before == files_at_start.untiered[c].content
                after == untiered_file[c].content
            IN  /\ \A k \in 1..Len(before) :
                       Occurrences(before[k], after) >= Occurrences(before[k], before)
                /\ \A i, j \in 1..Len(after) :
                       i < j => after[i].detectedOn >= after[j].detectedOn

\* a completed run has put the asset it detected today before the entry of
\* an earlier day, whose role is not in the tenant any more
C30_Witness ==
    /\ program = "watcher"
    /\ run_pc = "done"
    /\ files_at_start.untiered["azure"].content = <<OldUntiered(1)>>
    /\ tenant.azure[1].type = "none"
    /\ Len(untiered_file["azure"].content) = 2
    /\ untiered_file["azure"].content[1].detectedOn = today
    /\ untiered_file["azure"].content[2] = OldUntiered(1)

(***************************************************************************)
(* Properties of the Watcher's report                                      *)
(***************************************************************************)
\* the status lines the run has printed for a category, in order
StatusLines(c) ==
    LET printed == SelectSeq(stdout, LAMBDA line : line[1] = c)
    IN  [k \in 1..Len(printed) |-> printed[k][2]]

TieredRemoved(c) ==
    Len(tiered_file[c].content) < Len(files_at_start.tiered[c].content)

UntieredAppended(c) ==
    Len(untiered_file[c].content) > Len(files_at_start.untiered[c].content)

\* C31: for every category it reports on, the Watcher prints one line or, when
\* it both removed tiered entries and appended untiered entries, the deletion
\* line followed by the addition line; 'no changes' is printed exactly when
\* no tiered entry was removed and no entry was appended to the untiered
\* file, and then it is the only line
C31_StatusLines ==
    program = "watcher" =>
        \A c \in Categories :
            StatusPrinted(c) =>
                StatusLines(c) =
                    (IF TieredRemoved(c)
                     THEN <<"unused tiered assets have been detected and removed">>
                     ELSE <<>>)
                    \o (IF UntieredAppended(c)
                        THEN <<"untiered assets have been detected">> ELSE <<>>)
                    \o (IF ~TieredRemoved(c) /\ ~UntieredAppended(c)
                        THEN <<"no changes">> ELSE <<>>)

\* the claim as stated: exactly one line per category
C31_OneStatusLine ==
    program = "watcher" =>
        \A c \in Categories :
            StatusPrinted(c) =>
                /\ Len(StatusLines(c)) = 1
                /\ StatusLines(c) = <<"no changes">>
                       <=> (~TieredRemoved(c) /\ ~UntieredAppended(c))

\* a run has removed a tiered Azure role and has appended an untiered one,
\* and has printed both lines
C31_Witness ==
    /\ program = "watcher"
    /\ TieredRemoved("azure")
    /\ UntieredAppended("azure")
    /\ Len(StatusLines("azure")) = 2

(***************************************************************************)
(* Properties of the ids of a tiered file                                  *)
(***************************************************************************)
DistinctIds(assets) ==
    \A i, j \in 1..Len(assets) : i # j => assets[i].id # assets[j].id

\* C32: when the ids of the local tiered file of a category are pairwise
\* distinct and so are the ids of the upstream list, the list a Syncer run
\* writes to the tiered file has pairwise distinct ids
C32_WrittenIdsDistinct ==
    program = "syncer" =>
        \A c \in Categories :
            (/\ <<"tiered", c>> \in written
             /\ DistinctIds(files_at_start.tiered[c].content)
             /\ DistinctIds(aat[c])) =>
                DistinctIds(tiered_file[c].content)

(***************************************************************************)
(* Properties of the reader of a tiered file                               *)
(***************************************************************************)
\* what a step taken from the reader's position does to the files
ReadsTieredFile ==
    run_pc \in {"w_read", "s_read"} =>
        LET file == tiered_file[category]
        IN  /\ file.kind \in {"absent", "empty"} =>
                   /\ tiered_file'[category] = JsonFile(<<>>)
                   /\ tiered_roles'[category] = <<>>
                   /\ run_pc' \notin {"exited", "raised"}
            /\ file.kind = "json" =>
                   /\ tiered_file' = tiered_file
                   /\ tiered_roles'[category] = file.content
                   /\ run_pc' \notin {"exited", "raised"}
            /\ file.kind = "malformed" =>
                   /\ tiered_file' = tiered_file
                   /\ tiered_roles' = tiered_roles
                   /\ run_pc' = "exited"
            /\ \A c \in Categories \ {category} : tiered_file'[c] = tiered_file[c]
            /\ untiered_file' = untiered_file

\* C33: reading a tiered file that is absent or empty leaves an empty JSON
\* array in the file and returns the empty list; reading a file that holds a
\* JSON array returns the array and leaves the file as it is; reading a
\* file of malformed JSON ends the process and leaves the file as it is
C33_ReadTieredFile == [][ReadsTieredFile]_vars

\* a Syncer run has read a tiered file that did not exist and has created it
C33_Witness ==
    /\ program = "syncer"
    /\ run_pc = "s_fetch"
    /\ files_at_start.tiered[category].kind = "absent"
    /\ tiered_file[category] = JsonFile(<<>>)
    /\ tiered_roles[category] = <<>>

(***************************************************************************)
(* Termination of send_batch_request_to_arm                                *)
(***************************************************************************)
\* the call keeps taking steps while it can: the process is never suspended
\* for good
FairBatch == InitBatch /\ [][NextBatch]_vars /\ WF_vars(NextBatch)

\* every POST so far was answered 200
OnlyAnswered200 == http_response.status_code \in {NoAnswer, 200}

\* C34: when every POST is answered 200 and the API hands out only finitely
\* many 429, 500 and 503 items, send_batch_request_to_arm eventually returns,
\* and the requests a round leaves to be submitted again are never more than
\* the requests the round submitted
C34_EventuallyReturns ==
    /\ <>(pc = "returned" \/ ~OnlyAnswered200)
    /\ [][pc = "analyze" => Len(remaining_requests') <= Len(body)]_vars

(***************************************************************************)
(* Properties of a continuation page that is not ready                     *)
(***************************************************************************)
\* C35: after the GET of a continuation page was answered 202, the next step
\* of the client, once it has waited, is to request that page again
C35_PageRequestedAgain ==
    [][pc = "page_wait" => pc' = "page"]_vars

(***************************************************************************)
(* Properties of the backoff after server errors                           *)
(***************************************************************************)
\* the seconds slept for server errors in the latest analysis
ServerErrorBackoff ==
    LET sleeps == SelectSeq(slept, LAMBDA z : z.why \in {"server error",
                                                         "service unavailable"})
    IN  SumSeq([k \in 1..Len(sleeps) |-> sleeps[k].num])

\* C36: when the round just analysed held items of status 500, of status 503
\* or of both, the call sleeps 60 seconds for them before it submits the
\* requests again
C36_ServerErrorBackoff ==
    (/\ pc = "post"
     /\ round >= 1
     /\ WithStatus(all_responses, 500) \o WithStatus(all_responses, 503) # <<>>) =>
        ServerErrorBackoff = 60

(***************************************************************************)
(* Properties of the ids of an untiered file                               *)
(***************************************************************************)
\* C37: when the ids of the untiered file of a category are pairwise distinct
\* at the start of a Watcher run, they are pairwise distinct during and after
\* the run: a role the collection reports more than once is appended at most
\* once
C37_UntieredIdsDistinct ==
    program = "watcher" =>
        \A c \in Categories :
            DistinctIds(files_at_start.untiered[c].content) =>
                DistinctIds(untiered_file[c].content)

(***************************************************************************)
(* Properties of the Syncer, run after run                                 *)
(***************************************************************************)
\* a sync step that goes on: 'no change' is reported exactly when the list
\* returned equals the list read, and then no file is written
WritesOnDifference ==
    (AtSync /\ run_pc' \notin {"exited", "raised"}) =>
        /\ stdout'[Len(stdout')] = <<category, "no change">>
               <=> SyncResult.assets = tiered_roles[category]
        /\ SyncResult.assets = tiered_roles[category] =>
               (tiered_file' = tiered_file /\ written' = written)

\* C38: the Syncer writes a tiered file only when run_sync_workflow returns a
\* list that differs from the list read, and a Syncer run that follows a
\* completed run over the same upstream lists and tenant writes no file and
\* reports 'no change' for every category it gets to
C38_SecondSyncChangesNothing ==
    /\ [][WritesOnDifference]_vars
    /\ []((program = "syncer" /\ previous_run = "done") =>
            /\ tiered_file = files_at_start.tiered
            /\ written = {}
            /\ \A k \in 1..Len(stdout) :
                   stdout[k][1] \in Categories => stdout[k][2] = "no change"
            /\ run_pc = "done" => \A c \in Categories : StatusPrinted(c))

\* the first run merged an upstream role of tier 2 into the tiered file, the
\* second run has completed
C38_Witness ==
    /\ program = "syncer"
    /\ previous_run = "done"
    /\ run_pc = "done"
    /\ \E c \in Categories : \E k \in 1..Len(tiered_file[c].content) :
           tiered_file[c].content[k].tier = 2

(***************************************************************************)
(* Properties of the tiered files over a Watcher run                       *)
(***************************************************************************)
RECURSIVE IsSubsequence(_, _)
\* s is t with some entries left out
IsSubsequence(s, t) ==
    IF s = <<>> THEN TRUE
    ELSE IF t = <<>> THEN FALSE
    ELSE IF Head(s) = Head(t) THEN IsSubsequence(Tail(s), Tail(t))
    ELSE IsSubsequence(s, Tail(t))

\* the entries of a list that are not of type Custom
NotCustom(assets) == SelectSeq(assets, LAMBDA asset : asset.assetType # "Custom")

\* the tiered Azure and Entra lists have only lost entries since the start
\* of the run, and the tiered MS Graph list is the one of the start
OnlyEntriesRemoved ==
    /\ \A c \in {"azure", "entra"} :
           IsSubsequence(tiered_file[c].content, files_at_start.tiered[c].content)
    /\ tiered_file["graph"].content = files_at_start.tiered["graph"].content

\* C39: over a Watcher run the tiered Azure and Entra lists are subsequences
\* of the lists read, the tiered Entra list keeps every entry that is not of
\* type Custom, and the tiered MS Graph list is unchanged
C39_WatcherOnlyRemoves ==
    (program = "watcher" /\ run_pc # "idle") =>
        /\ OnlyEntriesRemoved
        /\ NotCustom(tiered_file["entra"].content)
               = NotCustom(files_at_start.tiered["entra"].content)

\* whatever the repository, a Watcher run only leaves entries out
C39_SubsequenceOnly ==
    (program = "watcher" /\ run_pc # "idle") => OnlyEntriesRemoved

\* where the tiered Entra list has no two entries with one id, the entries
\* left out are all of type Custom
C39_CustomOnlyWithDistinctIds ==
    (/\ program = "watcher"
     /\ run_pc # "idle"
     /\ DistinctIds(files_at_start.tiered["entra"].content)) =>
        NotCustom(tiered_file["entra"].content)
            = NotCustom(files_at_start.tiered["entra"].content)

====
